---- MODULE Spec2Model ----
(***************************************************************************)
(* The invoice ledger of invoice-maker (src/src/main.rs): the output tree  *)
(* is the database.  A file is a path (year directory, client directory,   *)
(* stem, extension) with a content.  Stems are sequences of characters, so *)
(* that starts_with / ends_with / replace / take_while of the code are     *)
(* modelled by what they do; document texts are sequences of tokens (one   *)
(* token per textual field marker).                                        *)
(*                                                                         *)
(* Every command is a sequence of steps, one step per file-system call or  *)
(* external process call of the code.  pc[p] is the position of invocation *)
(* p, op[p] its local variables, out[p] what it has printed.               *)
(***************************************************************************)
EXTENDS Integers, Sequences, FiniteSets, TLC

VARIABLES
    files,   \* the regular files under <root>/output: path -> content
    dirs,    \* the directories <root>/output/<year>/<client> that exist
    pc,      \* pc[p]: position of invocation p in its command
    op,      \* op[p]: local variables of the command p runs (kept after it ends)
    out,     \* out[p]: lines printed by the command p runs (kept after it ends)
    nNew,    \* number of invoices whose creation was started (bounds the model)
    nFaults, \* number of file-system calls that failed (bounds the model)
    hist     \* ghost: for a source file produced by pay, the file pay started from

vars == <<files, dirs, pc, op, out, nNew, nFaults, hist>>

(***************************************************************************)
(* Bounds                                                                  *)
(***************************************************************************)
MaxInvoices == 2
MaxFaults == 1

Procs == {1, 2}
\* The single operator of the sequential specifications.
SeqProcs == {1}

(***************************************************************************)
(* Strings                                                                 *)
(***************************************************************************)
StartsWith(s, p) == Len(p) <= Len(s) /\ SubSeq(s, 1, Len(p)) = p

EndsWith(s, p) == Len(p) <= Len(s) /\ SubSeq(s, Len(s) - Len(p) + 1, Len(s)) = p

\* str::contains
Contains(s, p) == \E i \in 1..(Len(s) - Len(p) + 1) : SubSeq(s, i, i + Len(p) - 1) = p

\* str::replace: every non-overlapping match, scanning from the left.
RECURSIVE Replace(_, _, _)
Replace(s, from, to) ==
    IF Len(s) < Len(from) \/ from = <<>> THEN s
    ELSE IF SubSeq(s, 1, Len(from)) = from
         THEN to \o Replace(SubSeq(s, Len(from) + 1, Len(s)), from, to)
         ELSE <<Head(s)>> \o Replace(Tail(s), from, to)

\* str::rfind of a one-element pattern: the last index, 0 for None.
RFind(s, c) ==
    IF \E i \in 1..Len(s) : s[i] = c
    THEN CHOOSE i \in 1..Len(s) : s[i] = c /\ \A j \in (i + 1)..Len(s) : s[j] # c
    ELSE 0

\* String::insert_str at (1-based) index i: t goes in front of s[i].
InsertStr(s, i, t) == SubSeq(s, 1, i - 1) \o t \o SubSeq(s, i, Len(s))

DigitChars == <<"0", "1", "2", "3", "4", "5", "6", "7", "8", "9">>

\* char::is_numeric, on the characters file names are made of.
IsNumeric(c) == \E i \in 1..10 : DigitChars[i] = c

DigitValue(c) == (CHOOSE i \in 1..10 : DigitChars[i] = c) - 1

\* Iterator::take_while(is_numeric)
RECURSIVE TakeWhileNumeric(_)
TakeWhileNumeric(s) ==
    IF s = <<>> \/ ~IsNumeric(Head(s)) THEN <<>>
    ELSE <<Head(s)>> \o TakeWhileNumeric(Tail(s))

\* str::parse::<u32>: the number, or -1 for Err (empty, or a non-digit inside).
RECURSIVE ParseDigits(_, _)
ParseDigits(s, acc) ==
    IF s = <<>> THEN acc
    ELSE IF ~IsNumeric(Head(s)) THEN -1
    ELSE ParseDigits(Tail(s), acc * 10 + DigitValue(Head(s)))

ParseU32(s) == IF s = <<>> THEN -1 ELSE ParseDigits(s, 0)

\* Decimal digits of a natural number.
RECURSIVE Decimal(_)
Decimal(n) ==
    IF n < 10 THEN <<DigitChars[n + 1]>>
    ELSE Decimal(n \div 10) \o <<DigitChars[(n % 10) + 1]>>

\* format!("{:0w}", n): zero-padded to at least w digits.
RECURSIVE ZeroPad(_, _)
ZeroPad(s, w) == IF Len(s) >= w THEN s ELSE ZeroPad(<<"0">> \o s, w)

Fmt02(n) == ZeroPad(Decimal(n), 2)

(***************************************************************************)
(* Dates, clients, projects: the values the wizard hands to generate_pdf   *)
(***************************************************************************)
Dates == { [y |-> 2025, m |-> 3, d |-> 1],
           [y |-> 2025, m |-> 3, d |-> 2],
           [y |-> 2024, m |-> 3, d |-> 1] }

Clients == { [id |-> "acme", name |-> <<"Acme Co">>],
             [id |-> "bob",  name |-> <<"Attn:", " ", "Bob">>] }

\* Project ids are slugs of the street (lower case letters, digits, '-').
Projects == { <<"1", "a">> }

ItemLists == { <<"100.00">> }

TaxRates == { "0.08" }

\* date.format("%Y%m%d")
DateStr(date) ==
    ZeroPad(Decimal(date.y), 4) \o ZeroPad(Decimal(date.m), 2) \o ZeroPad(Decimal(date.d), 2)

\* format!("HI{}", date_str)
Prefix(date) == <<"H", "I">> \o DateStr(date)

PAID == <<"_", "P", "A", "I", "D">>
VOID == <<"_", "V", "O", "I", "D">>

(***************************************************************************)
(* Paths                                                                   *)
(***************************************************************************)
Path(year, client, stem, ext) ==
    [year |-> year, client |-> client, stem |-> stem, ext |-> ext]

NoPath == Path(0, "", <<>>, "")

\* Path::with_extension
WithExtension(path, ext) == [path EXCEPT !.ext = ext]

\* Path::file_name
FileName(path) == path.stem \o <<".">> \o <<path.ext>>

Exists(path) == path \in DOMAIN files

\* fs::write
Written(fs, path, content) ==
    [q \in (DOMAIN fs) \cup {path} |-> IF q = path THEN content ELSE fs[q]]

\* fs::remove_file
RemovedNothing(fs, path) == fs
Removed(fs, path) == [q \in (DOMAIN fs) \ {path} |-> fs[q]]

TypFiles == {f \in DOMAIN files : f.ext = "typ"}
PdfFiles == {f \in DOMAIN files : f.ext = "pdf"}

(***************************************************************************)
(* Document text.  The rendering (templates/invoice.tera, embedded as      *)
(* DEFAULT_TEMPLATE) follows the text contract of the design, section 6:   *)
(* key: value fields amount, tax_rate, is_paid, is_void and a client       *)
(* record with a name, closed by a final parenthesis.                      *)
(***************************************************************************)
\* One token per flag field, e.g. "is_paid: false".
FlagTok(key, b) ==
    CASE key = "is_paid" /\ b  -> "is_paid: true"
      [] key = "is_paid" /\ ~b -> "is_paid: false"
      [] key = "is_void" /\ b  -> "is_void: true"
      [] key = "is_void" /\ ~b -> "is_void: false"

RECURSIVE RenderItems(_)
RenderItems(items) ==
    IF items = <<>> THEN <<>>
    ELSE <<"(", "amount: ", Head(items), ")">> \o RenderItems(Tail(items))

\* tera.render("invoice.tera", &context)
Render(ctx) ==
    <<"#invoice(", "client: (name: \"">> \o ctx.client.name \o <<"\"", ")">>
        \o RenderItems(ctx.items)
        \o <<"tax_rate: ", ctx.tax_rate>>
        \o <<FlagTok("is_paid", ctx.is_paid), FlagTok("is_void", ctx.is_void)>>
        \o <<")">>

\* typst compile <typ> <pdf>: the binary, as far as the ledger looks at it.
Compiled(text) == <<"%PDF">> \o text

(***************************************************************************)
(* Local variables of a command                                            *)
(***************************************************************************)
NoDate == [y |-> 0, m |-> 0, d |-> 0]

\* What show_summary has computed: the target year, the facts extracted per
\* file, the two maps of (paid, unpaid) sums, and the rows of the monthly
\* table; `unreadable` are the files whose text could not be read.
NoSummary ==
    [year |-> 0, infos |-> <<>>, monthly |-> <<>>, clients |-> <<>>,
     rows |-> <<>>, total_row |-> <<>>, unreadable |-> {}]

NoOp ==
    [cmd |-> "none", old |-> NoPath, new |-> NoPath, read |-> <<>>,
     content |-> <<>>, date |-> NoDate, idx |-> 0, failed |-> FALSE,
     summary |-> NoSummary, listing |-> {}]

Ended(p, cmd, failed, lines) ==
    /\ pc' = [pc EXCEPT ![p] = "idle"]
    /\ op' = [op EXCEPT ![p] = [NoOp EXCEPT !.cmd = cmd, !.failed = failed]]
    /\ out' = [out EXCEPT ![p] = lines]

Say(p, line) == out' = [out EXCEPT ![p] = Append(out[p], line)]

Goto(p, where) == pc' = [pc EXCEPT ![p] = where]

(***************************************************************************)
(* generate_pdf: the invoice id                                            *)
(***************************************************************************)
\* rest.chars().skip(1).take_while(|c| c.is_numeric())
NumPartExact(rest) == Tail(rest)
NumPart(rest) == TakeWhileNumeric(Tail(rest))

\* The update of next_idx by one parsed index.
BumpStrict(idx, next_idx) == IF idx > next_idx THEN idx + 1 ELSE next_idx
Bump(idx, next_idx) == IF idx >= next_idx THEN idx + 1 ELSE next_idx

\* The body of the scan loop for one file name.
ScanFile(fname, prefix, next_idx) ==
    IF StartsWith(fname, prefix)
    THEN LET rest == SubSeq(fname, Len(prefix) + 1, Len(fname)) IN
         IF StartsWith(rest, <<"-">>)
         THEN LET idx == ParseU32(NumPart(rest)) IN
              IF idx # -1 THEN Bump(idx, next_idx) ELSE next_idx
         ELSE next_idx
    ELSE next_idx

\* The loop over the entries found, in whatever order read_dir yields them.
RECURSIVE ScanEntries(_, _, _)
ScanEntries(entries, prefix, next_idx) ==
    IF entries = {} THEN next_idx
    ELSE LET f == CHOOSE x \in entries : TRUE IN
         ScanEntries(entries \ {f}, prefix, ScanFile(FileName(f), prefix, next_idx))

\* Every file anywhere under output/<year>/.
YearEntriesClient(fs, year, client) == {f \in DOMAIN fs : f.year = year /\ f.client = client}
YearEntries(fs, year, client) == {f \in DOMAIN fs : f.year = year}

\* next_idx after the scan of the year directory of `date`.
NextIdxReserving(fs, ds, date, client) ==
    LET scanned == IF \E d \in ds : d.year = date.y
                   THEN ScanEntries(YearEntries(fs, date.y, client), Prefix(date), 1)
                   ELSE 1
        pending == {op[q].idx : q \in {r \in Procs : pc[r] = "new_write" /\ op[r].date = date}}
    IN IF \A i \in pending : i < scanned
       THEN scanned
       ELSE 1 + CHOOSE m \in pending : \A i \in pending : i <= m
NextIdx(fs, ds, date, client) ==
    IF \E d \in ds : d.year = date.y
    THEN ScanEntries(YearEntries(fs, date.y, client), Prefix(date), 1)
    ELSE 1

\* format!("{}-{:02}", prefix, next_idx)
InvoiceId(date, next_idx) == Prefix(date) \o <<"-">> \o Fmt02(next_idx)

\* format!("{}_{}", invoice_id, project.id)
FilenameBase(invoice_id, project) == invoice_id \o <<"_">> \o project

(***************************************************************************)
(* generate_pdf: the steps                                                 *)
(***************************************************************************)
\* typst --version cannot be run.
NewNoTypst(p) ==
    /\ pc[p] = "idle"
    /\ Ended(p, "new", TRUE, <<"Error: 'typst' is not installed">>)
    /\ UNCHANGED <<files, dirs, nNew, nFaults, hist>>

\* Tera::new fails on the template directory.
NewTemplateError(p) ==
    /\ pc[p] = "idle"
    /\ Ended(p, "new", TRUE, <<"Template Error">>)
    /\ UNCHANGED <<files, dirs, nNew, nFaults, hist>>

\* Scan, id, render, create_dir_all: everything up to the write of the source.
NewBegin(p) ==
    /\ pc[p] = "idle"
    /\ nNew < MaxInvoices
    /\ \E client \in Clients, project \in Projects, items \in ItemLists,
          tax_rate \in TaxRates, date \in Dates :
          LET next_idx == NextIdx(files, dirs, date, client.id)
              invoice_id == InvoiceId(date, next_idx)
              rendered == Render([client |-> client, items |-> items,
                                  tax_rate |-> tax_rate,
                                  is_void |-> FALSE, is_paid |-> FALSE])
              typ_path == Path(date.y, client.id,
                               FilenameBase(invoice_id, project), "typ")
          IN /\ op' = [op EXCEPT ![p] =
                          [NoOp EXCEPT !.cmd = "new", !.new = typ_path,
                                       !.content = rendered, !.date = date,
                                       !.idx = next_idx]]
             /\ dirs' = dirs \cup {[year |-> date.y, client |-> client.id]}
    /\ nNew' = nNew + 1
    /\ out' = [out EXCEPT ![p] = <<>>]
    /\ Goto(p, "new_write")
    /\ UNCHANGED <<files, nFaults, hist>>

\* fs::write(&typ_path, rendered)
NewWrite(p) ==
    /\ pc[p] = "new_write"
    /\ files' = Written(files, op[p].new, op[p].content)
    /\ Say(p, "Compiling PDF...")
    /\ Goto(p, "new_compile")
    /\ UNCHANGED <<dirs, op, nNew, nFaults, hist>>

\* typst compile succeeds.
NewCompileOk(p) ==
    /\ pc[p] = "new_compile"
    /\ Exists(op[p].new)
    /\ files' = Written(files, WithExtension(op[p].new, "pdf"), Compiled(files[op[p].new]))
    /\ Say(p, "PDF Generated")
    /\ Goto(p, "idle")
    /\ UNCHANGED <<dirs, op, nNew, nFaults, hist>>

\* typst compile fails, or cannot be run.
NewCompileFail(p) ==
    /\ pc[p] = "new_compile"
    /\ Say(p, "Compilation failed.")
    /\ op' = [op EXCEPT ![p].failed = TRUE]
    /\ Goto(p, "idle")
    /\ UNCHANGED <<files, dirs, nNew, nFaults, hist>>

NewInvoice(p) ==
    \/ NewNoTypst(p)
    \/ NewTemplateError(p)
    \/ NewBegin(p)
    \/ NewWrite(p)
    \/ NewCompileOk(p)
    \/ NewCompileFail(p)

(***************************************************************************)
(* change_invoice_status and void_invoice: scan, filter, rewrite           *)
(***************************************************************************)
\* The walk over the output directory: every file with the source extension.
ScanTypYear(fs) == {f \in DOMAIN fs : f.ext = "typ" /\ f.year = 2025}
ScanTyp(fs) == {f \in DOMAIN fs : f.ext = "typ"}

\* The filter closure of change_invoice_status, on a file stem.
ChangeFilterKeepVoid(name, target_paid) ==
    LET is_currently_paid == EndsWith(name, PAID) IN
    IF target_paid THEN ~is_currently_paid ELSE is_currently_paid
ChangeFilter(name, target_paid) ==
    IF EndsWith(name, VOID) THEN FALSE
    ELSE LET is_currently_paid == EndsWith(name, PAID) IN
         IF target_paid THEN ~is_currently_paid ELSE is_currently_paid

\* The filter closure of void_invoice.
VoidFilterKeepPaid(name) == ~EndsWith(name, VOID)
VoidFilter(name) == ~EndsWith(name, VOID) /\ ~EndsWith(name, PAID)

\* filtered_files of change_invoice_status(target_paid)
ChangeCandidates(fs, target_paid) ==
    {f \in ScanTyp(fs) : ChangeFilter(f.stem, target_paid)}

\* filtered_files of void_invoice
VoidCandidates(fs) == {f \in ScanTyp(fs) : VoidFilter(f.stem)}

\* content.replace(from_str, to_str)
PaidContentKeep(content, target_paid) == content
PaidContentFlagOnly(content, target_paid) == <<FlagTok("is_paid", target_paid)>>
PaidContent(content, target_paid) ==
    LET from_str == <<FlagTok("is_paid", ~target_paid)>>
        to_str == <<FlagTok("is_paid", target_paid)>>
    IN Replace(content, from_str, to_str)

\* new_stem of change_invoice_status
PaidStemKeep(stem, target_paid) == IF target_paid THEN stem \o PAID ELSE stem
PaidStem(stem, target_paid) ==
    IF target_paid THEN stem \o PAID ELSE Replace(stem, PAID, <<>>)

\* new_content of void_invoice
VoidContentAppend(content) ==
    IF Contains(content, <<"is_void: false">>)
    THEN Replace(content, <<"is_void: false">>, <<"is_void: true">>)
    ELSE content \o <<", ", "is_void: true">>
VoidContent(content) ==
    IF Contains(content, <<"is_void: false">>)
    THEN Replace(content, <<"is_void: false">>, <<"is_void: true">>)
    ELSE LET last_paren == RFind(content, ")") IN
         IF last_paren # 0
         THEN InsertStr(content, last_paren, <<", ", "is_void: true">>)
         ELSE content

\* new_stem of void_invoice
VoidStemFront(stem) ==
    LET n == 11 + Len(TakeWhileNumeric(SubSeq(stem, 12, Len(stem)))) IN
    SubSeq(stem, 1, n) \o VOID \o SubSeq(stem, n + 1, Len(stem))
VoidStem(stem) == stem \o VOID

\* The calls in the order the code makes them: write the new source, remove
\* the old source, remove the old binary, compile.
StepOrderRemoveFirst == <<"st_rm_typ", "st_rm_pdf", "st_write", "st_compile">>
StepOrder == <<"st_write", "st_rm_typ", "st_rm_pdf", "st_compile">>

PcNext(label) ==
    LET i == CHOOSE j \in 1..Len(StepOrder) : StepOrder[j] = label IN
    IF i < Len(StepOrder) THEN StepOrder[i + 1] ELSE "idle"

\* if new_typ_path != old_typ_path { the two removals }
PcAfterWriteSkip(o) == "st_compile"
PcAfterWrite(o) == IF o.new # o.old THEN PcNext("st_write") ELSE "st_compile"

OutputExists == dirs # {}

\* The selected file was read; the new text and the new path are computed.
Selected(p, cmd, choice, new_content, new_stem) ==
    /\ op' = [op EXCEPT ![p] =
                [NoOp EXCEPT !.cmd = cmd, !.old = choice,
                             !.new = Path(choice.year, choice.client, new_stem, "typ"),
                             !.read = files[choice], !.content = new_content]]
    /\ out' = [out EXCEPT ![p] = <<"Scanning invoices...">>]
    /\ Goto(p, StepOrder[1])
    /\ UNCHANGED <<files, dirs, nNew, nFaults, hist>>

(***************************************************************************)
(* The steps after the selection, the same in both functions               *)
(***************************************************************************)
\* fs::write(&new_typ_path, new_content)
StWrite(p, cmds) ==
    /\ pc[p] = "st_write"
    /\ op[p].cmd \in cmds
    /\ files' = Written(files, op[p].new, op[p].content)
    /\ hist' = IF op[p].cmd = "pay"
               THEN Written(hist, op[p].new, [path |-> op[p].old, text |-> op[p].read])
               ELSE hist
    /\ Goto(p, PcAfterWrite(op[p]))
    /\ UNCHANGED <<dirs, op, out, nNew, nFaults>>

\* fs::remove_file(&old_typ_path).ok()
StRemoveTyp(p, cmds) ==
    /\ pc[p] = "st_rm_typ"
    /\ op[p].cmd \in cmds
    /\ files' = Removed(files, op[p].old)
    /\ Say(p, "Renaming")
    /\ Goto(p, PcNext("st_rm_typ"))
    /\ UNCHANGED <<dirs, op, nNew, nFaults, hist>>

\* if old_pdf_path.exists() { fs::remove_file(&old_pdf_path).ok(); }
StRemovePdf(p, cmds) ==
    /\ pc[p] = "st_rm_pdf"
    /\ op[p].cmd \in cmds
    /\ LET old_pdf_path == WithExtension(op[p].old, "pdf") IN
       files' = IF Exists(old_pdf_path) THEN Removed(files, old_pdf_path) ELSE files
    /\ Goto(p, PcNext("st_rm_pdf"))
    /\ UNCHANGED <<dirs, op, out, nNew, nFaults, hist>>

\* typst compile succeeds.
StCompileOk(p, cmds, done) ==
    /\ pc[p] = "st_compile"
    /\ op[p].cmd \in cmds
    /\ Exists(op[p].new)
    /\ files' = Written(files, WithExtension(op[p].new, "pdf"), Compiled(files[op[p].new]))
    /\ out' = [out EXCEPT ![p] = out[p] \o <<"Re-compiling...", done>>]
    /\ Goto(p, "idle")
    /\ UNCHANGED <<dirs, op, nNew, nFaults, hist>>

\* What the `_ =>` arm of the match on the compiler's status prints.
CompileFailLinesDone == <<"Re-compiling...", "Done!">>
CompileFailLines == <<"Re-compiling...", "Re-compilation failed.">>

\* typst compile fails, or cannot be run.
StCompileFail(p, cmds) ==
    /\ pc[p] = "st_compile"
    /\ op[p].cmd \in cmds
    /\ out' = [out EXCEPT ![p] = out[p] \o CompileFailLines]
    /\ op' = [op EXCEPT ![p].failed = TRUE]
    /\ Goto(p, "idle")
    /\ UNCHANGED <<files, dirs, nNew, nFaults, hist>>

(***************************************************************************)
(* change_invoice_status(root, target_paid): pay (TRUE) and unpay (FALSE)  *)
(***************************************************************************)
ChangeCmd(target_paid) == IF target_paid THEN "pay" ELSE "unpay"
ChangeCmds == {"pay", "unpay"}

ChangeNoOutput(p) ==
    /\ pc[p] = "idle"
    /\ ~OutputExists
    /\ \E target_paid \in BOOLEAN :
          Ended(p, ChangeCmd(target_paid), FALSE, <<"No output directory found.">>)
    /\ UNCHANGED <<files, dirs, nNew, nFaults, hist>>

ChangeNoMatch(p) ==
    /\ pc[p] = "idle"
    /\ OutputExists
    /\ \E target_paid \in BOOLEAN :
          /\ ChangeCandidates(files, target_paid) = {}
          /\ Ended(p, ChangeCmd(target_paid), FALSE,
                   <<"Scanning invoices...", "No matching invoices found.">>)
    /\ UNCHANGED <<files, dirs, nNew, nFaults, hist>>

\* Err(_) => println!("Cancelled")
ChangeCancelRemoves(p) ==
    /\ pc[p] = "idle"
    /\ OutputExists
    /\ \E target_paid \in BOOLEAN :
          \E choice \in ChangeCandidates(files, target_paid) :
             /\ files' = Removed(files, choice)
             /\ Ended(p, ChangeCmd(target_paid), FALSE,
                      <<"Scanning invoices...", "Cancelled">>)
    /\ UNCHANGED <<dirs, nNew, nFaults, hist>>
ChangeCancel(p) ==
    /\ pc[p] = "idle"
    /\ OutputExists
    /\ \E target_paid \in BOOLEAN :
          /\ ChangeCandidates(files, target_paid) # {}
          /\ Ended(p, ChangeCmd(target_paid), FALSE,
                   <<"Scanning invoices...", "Cancelled">>)
    /\ UNCHANGED <<files, dirs, nNew, nFaults, hist>>

ChangeSelect(p) ==
    /\ pc[p] = "idle"
    /\ OutputExists
    /\ \E target_paid \in BOOLEAN :
          \E choice \in ChangeCandidates(files, target_paid) :
             Selected(p, ChangeCmd(target_paid), choice,
                      PaidContent(files[choice], target_paid),
                      PaidStem(choice.stem, target_paid))

ChangeWrite(p) == StWrite(p, ChangeCmds)
ChangeRemoveTyp(p) == StRemoveTyp(p, ChangeCmds)
ChangeRemovePdf(p) == StRemovePdf(p, ChangeCmds)
ChangeCompileOk(p) == StCompileOk(p, ChangeCmds, "Done!")
ChangeCompileFail(p) == StCompileFail(p, ChangeCmds)

ChangeInvoiceStatus(p) ==
    \/ ChangeNoOutput(p)
    \/ ChangeNoMatch(p)
    \/ ChangeCancel(p)
    \/ ChangeSelect(p)
    \/ ChangeWrite(p)
    \/ ChangeRemoveTyp(p)
    \/ ChangeRemovePdf(p)
    \/ ChangeCompileOk(p)
    \/ ChangeCompileFail(p)

(***************************************************************************)
(* void_invoice(root)                                                      *)
(***************************************************************************)
VoidCmds == {"void"}

VoidNoOutput(p) ==
    /\ pc[p] = "idle"
    /\ ~OutputExists
    /\ Ended(p, "void", FALSE, <<"No output directory found.">>)
    /\ UNCHANGED <<files, dirs, nNew, nFaults, hist>>

VoidNoMatch(p) ==
    /\ pc[p] = "idle"
    /\ OutputExists
    /\ VoidCandidates(files) = {}
    /\ Ended(p, "void", FALSE, <<"Scanning invoices...", "No matching invoices found.">>)
    /\ UNCHANGED <<files, dirs, nNew, nFaults, hist>>

VoidCancel(p) ==
    /\ pc[p] = "idle"
    /\ OutputExists
    /\ VoidCandidates(files) # {}
    /\ Ended(p, "void", FALSE, <<"Scanning invoices...", "Cancelled">>)
    /\ UNCHANGED <<files, dirs, nNew, nFaults, hist>>

VoidSelect(p) ==
    /\ pc[p] = "idle"
    /\ OutputExists
    /\ \E choice \in VoidCandidates(files) :
          Selected(p, "void", choice, VoidContent(files[choice]), VoidStem(choice.stem))

VoidWrite(p) == StWrite(p, VoidCmds)
VoidRemoveTyp(p) == StRemoveTyp(p, VoidCmds)
VoidRemovePdf(p) == StRemovePdf(p, VoidCmds)
VoidCompileOk(p) == StCompileOk(p, VoidCmds, "Done! Invoice marked as VOID.")
VoidCompileFail(p) == StCompileFail(p, VoidCmds)

VoidInvoice(p) ==
    \/ VoidNoOutput(p)
    \/ VoidNoMatch(p)
    \/ VoidCancel(p)
    \/ VoidSelect(p)
    \/ VoidWrite(p)
    \/ VoidRemoveTyp(p)
    \/ VoidRemovePdf(p)
    \/ VoidCompileOk(p)
    \/ VoidCompileFail(p)

(***************************************************************************)
(* File-system calls that fail                                             *)
(***************************************************************************)
Fault == nFaults < MaxFaults /\ nFaults' = nFaults + 1

\* A failed fs::write: nothing happened (the file could not be created), or
\* the file was created or truncated and the text did not get into it.
WriteFailOutcomes(fs, path) == {fs, Written(fs, path, <<>>)}

\* The process panics: `line` is the panic message.
PanickedGoesOn(p, line) ==
    /\ out' = [out EXCEPT ![p] = Append(out[p], line)]
    /\ op' = [op EXCEPT ![p].failed = TRUE]
    /\ Goto(p, IF pc[p] = "st_write" THEN PcAfterWrite(op[p]) ELSE "idle")
Panicked(p, line) ==
    /\ out' = [out EXCEPT ![p] = Append(out[p], line)]
    /\ op' = [op EXCEPT ![p].failed = TRUE]
    /\ Goto(p, "idle")

\* fs::create_dir_all(&output_dir).unwrap() panics.
NewMkdirFail(p) ==
    /\ pc[p] = "idle"
    /\ nNew < MaxInvoices
    /\ Fault
    /\ Ended(p, "new", TRUE, <<"panic: create_dir_all">>)
    /\ UNCHANGED <<files, dirs, nNew, hist>>

\* fs::write(&typ_path, rendered).expect("Failed to write .typ file") panics.
NewWriteFail(p) ==
    /\ pc[p] = "new_write"
    /\ Fault
    /\ files' \in WriteFailOutcomes(files, op[p].new)
    /\ Panicked(p, "panic: Failed to write .typ file")
    /\ UNCHANGED <<dirs, nNew, hist>>

\* fs::read_to_string(&old_typ_path) is Err: the if let has no else branch.
ReadFailed(p, cmd) ==
    /\ Fault
    /\ Ended(p, cmd, TRUE, <<"Scanning invoices...">>)
    /\ UNCHANGED <<files, dirs, nNew, hist>>

ChangeReadFail(p) ==
    /\ pc[p] = "idle"
    /\ OutputExists
    /\ \E target_paid \in BOOLEAN :
          /\ ChangeCandidates(files, target_paid) # {}
          /\ ReadFailed(p, ChangeCmd(target_paid))

VoidReadFail(p) ==
    /\ pc[p] = "idle"
    /\ OutputExists
    /\ VoidCandidates(files) # {}
    /\ ReadFailed(p, "void")

\* fs::write(&new_typ_path, new_content).expect(..) panics.
StWriteFail(p, cmds) ==
    /\ pc[p] = "st_write"
    /\ op[p].cmd \in cmds
    /\ Fault
    /\ files' \in WriteFailOutcomes(files, op[p].new)
    /\ Panicked(p, "panic: Failed to write updated .typ")
    /\ UNCHANGED <<dirs, nNew, hist>>

\* fs::remove_file(&old_typ_path).ok(): the error is dropped.
StRemoveTypFail(p, cmds) ==
    /\ pc[p] = "st_rm_typ"
    /\ op[p].cmd \in cmds
    /\ Fault
    /\ Say(p, "Renaming")
    /\ op' = [op EXCEPT ![p].failed = TRUE]
    /\ Goto(p, PcNext("st_rm_typ"))
    /\ UNCHANGED <<files, dirs, nNew, hist>>

\* fs::remove_file(&old_pdf_path).ok(): the error is dropped.
StRemovePdfFail(p, cmds) ==
    /\ pc[p] = "st_rm_pdf"
    /\ op[p].cmd \in cmds
    /\ Exists(WithExtension(op[p].old, "pdf"))
    /\ Fault
    /\ op' = [op EXCEPT ![p].failed = TRUE]
    /\ Goto(p, PcNext("st_rm_pdf"))
    /\ UNCHANGED <<files, dirs, out, nNew, hist>>

ChangeWriteFail(p) == StWriteFail(p, ChangeCmds)
ChangeRemoveTypFail(p) == StRemoveTypFail(p, ChangeCmds)
ChangeRemovePdfFail(p) == StRemovePdfFail(p, ChangeCmds)
VoidWriteFail(p) == StWriteFail(p, VoidCmds)
VoidRemoveTypFail(p) == StRemoveTypFail(p, VoidCmds)
VoidRemovePdfFail(p) == StRemovePdfFail(p, VoidCmds)

Faults(p) ==
    \/ NewMkdirFail(p)
    \/ NewWriteFail(p)
    \/ ChangeReadFail(p)
    \/ ChangeWriteFail(p)
    \/ ChangeRemoveTypFail(p)
    \/ ChangeRemovePdfFail(p)
    \/ VoidReadFail(p)
    \/ VoidWriteFail(p)
    \/ VoidRemoveTypFail(p)
    \/ VoidRemovePdfFail(p)

(***************************************************************************)
(* parse_invoice_total: the facts extracted from the text of a document.   *)
(* Money is kept exact: amounts in hundredths, rates in hundredths, totals *)
(* in ten-thousandths (the code accumulates in f64).                       *)
(***************************************************************************)
\* The characters of the value tokens that occur in the texts.
Spelling(tok) ==
    CASE tok = "100.00" -> <<"1", "0", "0", ".", "0", "0">>
      [] tok = "50.00"  -> <<"5", "0", ".", "0", "0">>
      [] tok = "10.00"  -> <<"1", "0", ".", "0", "0">>
      [] tok = "10.05"  -> <<"1", "0", ".", "0", "5">>
      [] tok = "20.00"  -> <<"2", "0", ".", "0", "0">>
      [] tok = "5.00"   -> <<"5", ".", "0", "0">>
      [] tok = "7"      -> <<"7">>
      [] tok = "0.08"   -> <<"0", ".", "0", "8">>
      [] tok = "0.1"    -> <<"0", ".", "1">>
      [] tok = "1.2.3"  -> <<"1", ".", "2", ".", "3">>
      [] tok = "-5.00"  -> <<"-", "5", ".", "0", "0">>
      [] OTHER          -> <<"?">>

\* The capture group ([\d\.]+): the longest run of digits and dots in front.
RECURSIVE Capture(_)
Capture(chars) ==
    IF chars = <<>> \/ ~(IsNumeric(Head(chars)) \/ Head(chars) = ".") THEN <<>>
    ELSE <<Head(chars)>> \o Capture(Tail(chars))

\* str::parse::<f64> of a captured run, in hundredths; -1 for Err (no digit,
\* or more than one dot).  At most two decimals occur in the texts.
ParseF64(cap) ==
    LET dots == {i \in 1..Len(cap) : cap[i] = "."} IN
    IF Cardinality(dots) > 1 \/ Cardinality(dots) = Len(cap) THEN -1
    ELSE LET dot == IF dots = {} THEN Len(cap) + 1 ELSE CHOOSE i \in dots : TRUE
             int == SubSeq(cap, 1, dot - 1)
             frac == SubSeq(cap, dot + 1, Len(cap))
             frac2 == SubSeq(frac \o <<"0", "0">>, 1, 2)
         IN (IF int = <<>> THEN 0 ELSE ParseDigits(int, 0)) * 100 + ParseDigits(frac2, 0)

\* The positions where key:\s*([\d\.]+) matches.
FieldMatches(content, key) ==
    {i \in 1..(Len(content) - 1) :
        content[i] = key /\ Capture(Spelling(content[i + 1])) # <<>>}

FieldValue(content, i) == ParseF64(Capture(Spelling(content[i + 1])))

\* for cap in amount_re.captures_iter(&content) { subtotal += amount }
RECURSIVE SumAmounts(_, _)
SumAmounts(content, matches) ==
    IF matches = {} THEN 0
    ELSE LET i == CHOOSE j \in matches : TRUE
             amount == FieldValue(content, i)
         IN (IF amount # -1 THEN amount ELSE 0) + SumAmounts(content, matches \ {i})

Subtotal(content) == SumAmounts(content, FieldMatches(content, "amount: "))

MinOf(S) == CHOOSE m \in S : \A x \in S : m <= x

\* tax_re.captures(&content): the first match; unwrap_or(0.0); else 0.0
TaxRate(content) ==
    LET matches == FieldMatches(content, "tax_rate: ") IN
    IF matches = {} THEN 0
    ELSE LET rate == FieldValue(content, MinOf(matches)) IN
         IF rate # -1 THEN rate ELSE 0

\* paid_re.captures(&content): the first is_paid: (true|false); else false
IsPaidAbsentTrue(content) ==
    LET matches == {i \in 1..Len(content) :
                       content[i] \in {"is_paid: true", "is_paid: false"}} IN
    IF matches = {} THEN TRUE ELSE content[MinOf(matches)] = "is_paid: true"
IsPaid(content) ==
    LET matches == {i \in 1..Len(content) :
                       content[i] \in {"is_paid: true", "is_paid: false"}} IN
    IF matches = {} THEN FALSE ELSE content[MinOf(matches)] = "is_paid: true"

\* str::trim, on a name made of tokens.
RECURSIVE TrimStart(_)
TrimStart(s) == IF s # <<>> /\ Head(s) = " " THEN TrimStart(Tail(s)) ELSE s

RECURSIVE TrimEnd(_)
TrimEnd(s) ==
    IF s # <<>> /\ s[Len(s)] = " " THEN TrimEnd(SubSeq(s, 1, Len(s) - 1)) ELSE s

Trim(s) == TrimEnd(TrimStart(s))

\* client_re: client:\s*\(\s*name:\s*"([^"]+)", the first match; the name
\* with "Attn:" replaced by "" and trimmed; else "Unknown Client".
ClientName(content) ==
    LET Closing(i) == {j \in (i + 1)..Len(content) : content[j] = "\""}
        matches == {i \in 1..Len(content) :
                       /\ content[i] = "client: (name: \""
                       /\ Closing(i) # {}
                       /\ MinOf(Closing(i)) > i + 1}
    IN IF matches = {} THEN <<"Unknown Client">>
       ELSE LET i == MinOf(matches)
                name == SubSeq(content, i + 1, MinOf(Closing(i)) - 1)
            IN Trim(Replace(name, <<"Attn:">>, <<>>))

\* Ok((subtotal * (1.0 + tax_rate), is_paid, client_name))
ParseInvoiceTotal(content) ==
    [total |-> Subtotal(content) * (100 + TaxRate(content)),
     is_paid |-> IsPaid(content),
     client |-> ClientName(content)]

(***************************************************************************)
(* show_summary(root, year)                                                *)
(***************************************************************************)
\* The years an operator asks a summary for.
Years == {2023, 2024, 2025}

\* typ_files: the source files whose stem does not end with _VOID.
SummaryFiles(fs) == {f \in ScanTyp(fs) : ~EndsWith(f.stem, VOID)}

\* date_re.captures(&filename): the places where HI and eight digits stand.
DateMatches(fname) ==
    {i \in 1..(Len(fname) - 9) :
        /\ fname[i] = "H"
        /\ fname[i + 1] = "I"
        /\ \A k \in 2..9 : IsNumeric(fname[i + k])}

DaysIn(y, m) ==
    IF m \in {4, 6, 9, 11} THEN 30
    ELSE IF m # 2 THEN 31
    ELSE IF (y % 4 = 0 /\ y % 100 # 0) \/ y % 400 = 0 THEN 29 ELSE 28

\* NaiveDate::parse_from_str(date_str, "%Y%m%d"); NoDate for Err.
ParseDate(date_str) ==
    LET y == ParseDigits(SubSeq(date_str, 1, 4), 0)
        m == ParseDigits(SubSeq(date_str, 5, 6), 0)
        d == ParseDigits(SubSeq(date_str, 7, 8), 0)
    IN IF m \in 1..12 /\ d \in 1..DaysIn(y, m) THEN [y |-> y, m |-> m, d |-> d]
       ELSE NoDate

\* The date of a file name: the first match of date_re, parsed.
DateOfName(fname) ==
    IF DateMatches(fname) = {} THEN NoDate
    ELSE LET i == MinOf(DateMatches(fname)) IN ParseDate(SubSeq(fname, i + 2, i + 9))

\* invoice_infos, kept per file: date, total, is_paid, client.
InvoiceInfos(fs) ==
    LET dated == {f \in SummaryFiles(fs) : DateOfName(FileName(f)) # NoDate} IN
    [f \in dated |->
        LET facts == ParseInvoiceTotal(fs[f]) IN
        [date |-> DateOfName(FileName(f)), total |-> facts.total,
         is_paid |-> facts.is_paid, client |-> facts.client]]

\* .filter(|i| i.date.year() == target_year)
InAnyYear(info, target_year) == TRUE
InTargetYear(info, target_year) == info.date.y = target_year

\* month_key
MonthKey(info) == <<info.date.y, info.date.m>>

RECURSIVE SumTotals(_, _)
SumTotals(infos, S) ==
    IF S = {} THEN 0
    ELSE LET f == CHOOSE x \in S : TRUE IN infos[f].total + SumTotals(infos, S \ {f})

\* if info.is_paid { entry.0 += info.total } else { entry.1 += info.total }
Totals(infos, S) ==
    [paid |-> SumTotals(infos, {f \in S : infos[f].is_paid}),
     unpaid |-> SumTotals(infos, {f \in S : ~infos[f].is_paid})]

\* monthly_totals: (year, month) -> (paid, unpaid)
MonthlyTotals(infos, target_year) ==
    LET sel == {f \in DOMAIN infos : InTargetYear(infos[f], target_year)}
        keys == {MonthKey(infos[f]) : f \in sel}
    IN [k \in keys |-> Totals(infos, {f \in sel : MonthKey(infos[f]) = k})]

\* client_totals: client name -> (paid, unpaid)
ClientTotalsPaidOnly(infos, target_year) ==
    LET sel == {f \in DOMAIN infos :
                   InTargetYear(infos[f], target_year) /\ infos[f].is_paid}
        keys == {infos[f].client : f \in sel}
    IN [k \in keys |-> Totals(infos, {f \in sel : infos[f].client = k})]
ClientTotals(infos, target_year) ==
    LET sel == {f \in DOMAIN infos : InTargetYear(infos[f], target_year)}
        keys == {infos[f].client : f \in sel}
    IN [k \in keys |-> Totals(infos, {f \in sel : infos[f].client = k})]

\* format!("${:.2}", x), for x >= 0 in ten-thousandths.
Fmt2(x) ==
    LET cents == (x + 50) \div 100 IN
    <<"$">> \o Decimal(cents \div 100) \o <<".">> \o ZeroPad(Decimal(cents % 100), 2)

MonthNames ==
    <<"January", "February", "March", "April", "May", "June", "July",
      "August", "September", "October", "November", "December">>

\* NaiveDate::from_ymd_opt(year, month, 1).format("%B %Y")
MonthStr(key) == <<MonthNames[key[2]], " ">> \o Decimal(key[1])

\* The order of the keys (year, month) of the BTreeMap.
KeyMore(a, b) == a[1] > b[1] \/ (a[1] = b[1] /\ a[2] > b[2])
KeyLess(a, b) == a[1] < b[1] \/ (a[1] = b[1] /\ a[2] < b[2])

\* for ((year, month), (paid, unpaid)) in monthly_totals.iter().rev()
RECURSIVE MonthRows(_, _)
MonthRows(monthly, keys) ==
    IF keys = {} THEN <<>>
    ELSE LET k == CHOOSE x \in keys : \A y \in keys \ {x} : KeyLess(y, x)
             t == monthly[k]
         IN <<<<MonthStr(k), Fmt2(t.paid), Fmt2(t.unpaid), Fmt2(t.paid + t.unpaid)>>>>
               \o MonthRows(monthly, keys \ {k})

\* total_paid += paid; total_unpaid += unpaid, over the rows.
RECURSIVE ColumnSums(_, _)
ColumnSums(monthly, keys) ==
    IF keys = {} THEN [paid |-> 0, unpaid |-> 0]
    ELSE LET k == CHOOSE x \in keys : TRUE
             rest == ColumnSums(monthly, keys \ {k})
         IN [paid |-> monthly[k].paid + rest.paid,
             unpaid |-> monthly[k].unpaid + rest.unpaid]

\* The trailing row "Total (<year>)".
TotalRow(monthly, target_year) ==
    LET t == ColumnSums(monthly, DOMAIN monthly) IN
    <<<<"Total (">> \o Decimal(target_year) \o <<")">>,
      Fmt2(t.paid), Fmt2(t.unpaid), Fmt2(t.paid + t.unpaid)>>

\* if let Ok(..) = parse_invoice_total(&path) { invoice_infos.push(..) }:
\* a file whose read fails is not pushed.
PushedNoneOnError(infos, unreadable) ==
    IF unreadable \cap DOMAIN infos # {} THEN <<>> ELSE infos
Pushed(infos, unreadable) == [f \in DOMAIN infos \ unreadable |-> infos[f]]

\* Everything show_summary computes from the tree for target_year.
SummaryOf(fs, unreadable, target_year) ==
    LET invoice_infos == Pushed(InvoiceInfos(fs), unreadable)
        monthly_totals == MonthlyTotals(invoice_infos, target_year)
    IN [year |-> target_year,
        infos |-> invoice_infos,
        monthly |-> monthly_totals,
        clients |-> ClientTotals(invoice_infos, target_year),
        rows |-> MonthRows(monthly_totals, DOMAIN monthly_totals),
        total_row |-> TotalRow(monthly_totals, target_year),
        unreadable |-> unreadable]

SummaryLines ==
    <<"Scanning invoices for summary...", "--- Monthly Invoice Summary ---",
      "--- Client Summary ---">>

ShowNoOutput(p) ==
    /\ pc[p] = "idle"
    /\ ~OutputExists
    /\ Ended(p, "summary", FALSE, <<"No output directory found. No invoices to summarize.">>)
    /\ UNCHANGED <<files, dirs, nNew, nFaults, hist>>

ShowNoInvoices(p) ==
    /\ pc[p] = "idle"
    /\ OutputExists
    /\ SummaryFiles(files) = {}
    /\ Ended(p, "summary", FALSE,
             <<"Scanning invoices for summary...", "No invoices found.">>)
    /\ UNCHANGED <<files, dirs, nNew, nFaults, hist>>

ShowTables(p) ==
    /\ pc[p] = "idle"
    /\ OutputExists
    /\ SummaryFiles(files) # {}
    /\ \E target_year \in Years :
          op' = [op EXCEPT ![p] =
                   [NoOp EXCEPT !.cmd = "summary",
                                !.summary = SummaryOf(files, {}, target_year)]]
    /\ out' = [out EXCEPT ![p] = SummaryLines]
    /\ Goto(p, "idle")
    /\ UNCHANGED <<files, dirs, nNew, nFaults, hist>>

\* The same, with fs::read_to_string failing in parse_invoice_total for some
\* of the files: the error is dropped by the if let, nothing is printed.
ShowTablesReadFail(p) ==
    /\ pc[p] = "idle"
    /\ OutputExists
    /\ \E unreadable \in SUBSET SummaryFiles(files) :
          /\ unreadable # {}
          /\ nFaults + Cardinality(unreadable) <= MaxFaults
          /\ nFaults' = nFaults + Cardinality(unreadable)
          /\ \E target_year \in Years :
                op' = [op EXCEPT ![p] =
                         [NoOp EXCEPT !.cmd = "summary",
                                      !.summary = SummaryOf(files, unreadable, target_year)]]
    /\ out' = [out EXCEPT ![p] = SummaryLines]
    /\ Goto(p, "idle")
    /\ UNCHANGED <<files, dirs, nNew, hist>>

ShowSummary(p) ==
    \/ ShowNoOutput(p)
    \/ ShowNoInvoices(p)
    \/ ShowTables(p)

(***************************************************************************)
(* A ledger that exists before the first command: entries an operator kept *)
(* or removed by hand, from which the id generator has to work             *)
(***************************************************************************)
D1 == [y |-> 2025, m |-> 3, d |-> 1]

TreeText(paid, void) ==
    Render([client |-> [id |-> "acme", name |-> <<"Acme Co">>], items |-> <<"100.00">>,
            tax_rate |-> "0.08", is_paid |-> paid, is_void |-> void])

TreeFile(year, idx, suffix, ext) ==
    Path(year, "acme", Prefix(D1) \o idx \o <<"_", "1", "a">> \o suffix, ext)

\* path -> content of the entries a ledger may start with
TreeUniverse ==
    LET unpaid == TreeText(FALSE, FALSE) IN
    [f \in { TreeFile(2025, <<"-", "0", "2">>, <<>>, "typ"),
             TreeFile(2025, <<"-", "0", "0">>, <<>>, "pdf"),
             TreeFile(2025, <<"-", "0", "5">>, VOID, "typ"),
             TreeFile(2025, <<"-">>, <<>>, "typ"),
             TreeFile(2025, <<>>, <<>>, "typ"),
             TreeFile(2024, <<"-", "0", "9">>, <<>>, "typ") }
       |-> IF f.ext = "pdf" THEN Compiled(unpaid)
           ELSE IF EndsWith(f.stem, VOID) THEN TreeText(FALSE, TRUE)
           ELSE unpaid]

InitTree ==
    /\ \E S \in SUBSET DOMAIN TreeUniverse :
          /\ files = [f \in S |-> TreeUniverse[f]]
          /\ dirs = {[year |-> f.year, client |-> f.client] : f \in S}
    /\ pc = [p \in Procs |-> "idle"]
    /\ op = [p \in Procs |-> NoOp]
    /\ out = [p \in Procs |-> <<>>]
    /\ nNew = 0
    /\ nFaults = 0
    /\ hist = <<>>

(***************************************************************************)
(* A ledger with documents rendered before the flags were introduced       *)
(***************************************************************************)
\* A document of the older templates: no is_void field, and before that no
\* is_paid field either.
RenderLegacy(ctx, with_paid) ==
    <<"#invoice(", "client: (name: \"">> \o ctx.client.name \o <<"\"", ")">>
        \o RenderItems(ctx.items)
        \o <<"tax_rate: ", ctx.tax_rate>>
        \o (IF with_paid THEN <<FlagTok("is_paid", ctx.is_paid)>> ELSE <<>>)
        \o <<")">>

LegacyText(with_paid) ==
    RenderLegacy([client |-> [id |-> "acme", name |-> <<"Acme Co">>],
                  items |-> <<"100.00">>, tax_rate |-> "0.08", is_paid |-> FALSE],
                 with_paid)

LegacyFile(date, ext) ==
    Path(date.y, "acme", InvoiceId(date, 1) \o <<"_", "1", "a">>, ext)

\* path -> content: two legacy documents (one with its binary), one current.
LegacyUniverse ==
    LET a == [y |-> 2023, m |-> 1, d |-> 5]
        b == [y |-> 2023, m |-> 1, d |-> 6]
    IN [f \in { LegacyFile(a, "typ"), LegacyFile(a, "pdf"),
                LegacyFile(b, "typ"), LegacyFile(D1, "typ") }
          |-> IF f = LegacyFile(a, "typ") THEN LegacyText(FALSE)
              ELSE IF f = LegacyFile(a, "pdf") THEN Compiled(LegacyText(FALSE))
              ELSE IF f = LegacyFile(b, "typ") THEN LegacyText(TRUE)
              ELSE TreeText(FALSE, FALSE)]

InitLegacy ==
    /\ \E S \in SUBSET DOMAIN LegacyUniverse :
          /\ files = [f \in S |-> LegacyUniverse[f]]
          /\ dirs = {[year |-> f.year, client |-> f.client] : f \in S}
    /\ pc = [p \in Procs |-> "idle"]
    /\ op = [p \in Procs |-> NoOp]
    /\ out = [p \in Procs |-> <<>>]
    /\ nNew = 0
    /\ nFaults = 0
    /\ hist = <<>>

(***************************************************************************)
(* A ledger for the summaries: documents of several months, years and      *)
(* clients, with the oddities an extractor of text fields has to cope with *)
(***************************************************************************)
SumFile(year, stem_date, seq, suffix, client) ==
    Path(year, client, InvoiceId(stem_date, seq) \o <<"_", "1", "a">> \o suffix, "typ")

Acme == [id |-> "acme", name |-> <<"Acme Co">>]
Bob == [id |-> "bob", name |-> <<"Attn:", " ", "Bob">>]

\* Three items and a tax.
S1 == SumFile(2025, [y |-> 2025, m |-> 3, d |-> 1], 1, <<>>, "acme")
\* A paid document of a contact-only client.
S2 == SumFile(2025, [y |-> 2025, m |-> 3, d |-> 2], 1, PAID, "bob")
\* A paid document of another month, without a tax_rate field.
S3 == SumFile(2025, [y |-> 2025, m |-> 4, d |-> 15], 1, PAID, "acme")
\* A document dated 2024 that lies in the directory of 2025.
S4 == SumFile(2025, [y |-> 2024, m |-> 12, d |-> 31], 1, <<>>, "acme")
\* A voided document.
S5 == SumFile(2025, [y |-> 2025, m |-> 3, d |-> 1], 2, VOID, "acme")
\* A file name whose eight digits are no date.
S6 == SumFile(2025, [y |-> 2025, m |-> 13, d |-> 1], 1, <<>>, "acme")
\* A discount line (an amount below zero, as the wizard accepts it), in a
\* text that says paid under a stem that does not.
S7 == SumFile(2025, [y |-> 2025, m |-> 3, d |-> 3], 1, <<>>, "bob")
\* No client record, and a tax_rate that is no number.
S8 == SumFile(2025, [y |-> 2025, m |-> 4, d |-> 20], 1, <<>>, "acme")

SumDoc(client, items, tax_rate, paid, void) ==
    Render([client |-> client, items |-> items, tax_rate |-> tax_rate,
            is_paid |-> paid, is_void |-> void])

\* path -> content
SumUniverse ==
    [f \in {S1, S2, S3, S4, S5, S6, S7, S8} |->
        CASE f = S1 -> SumDoc(Acme, <<"10.00", "20.00", "5.00">>, "0.08", FALSE, FALSE)
          [] f = S2 -> SumDoc(Bob, <<"100.00">>, "0.08", TRUE, FALSE)
          [] f = S3 -> <<"#invoice(", "client: (name: \"", "Acme Co", "\"", ")">>
                          \o RenderItems(<<"50.00">>) \o <<"is_paid: true", ")">>
          [] f = S4 -> SumDoc(Acme, <<"7">>, "0.1", FALSE, FALSE)
          [] f = S5 -> SumDoc(Acme, <<"100.00">>, "0.08", FALSE, TRUE)
          [] f = S6 -> SumDoc(Acme, <<"100.00">>, "0.08", FALSE, FALSE)
          [] f = S7 -> SumDoc(Bob, <<"20.00", "-5.00">>, "0.08", TRUE, FALSE)
          [] f = S8 -> <<"#invoice(">> \o RenderItems(<<"10.00">>)
                          \o <<"tax_rate: ", "1.2.3", ")">>]

InitSum ==
    /\ \E S \in SUBSET DOMAIN SumUniverse :
          /\ files = [f \in S |-> SumUniverse[f]]
          /\ dirs = {[year |-> f.year, client |-> f.client] : f \in S}
    /\ pc = [p \in Procs |-> "idle"]
    /\ op = [p \in Procs |-> NoOp]
    /\ out = [p \in Procs |-> <<>>]
    /\ nNew = 0
    /\ nFaults = 0
    /\ hist = <<>>

(***************************************************************************)
(* A second ledger for the summaries: the documents of the table rows      *)
(***************************************************************************)
\* A document text with or without a client record (name <<>>: none), a
\* tax_rate field (tax_rate "": none) and an is_paid field (flag "none").
RowDoc(name, items, tax_rate, flag) ==
    <<"#invoice(">>
        \o (IF name = <<>> THEN <<>>
            ELSE <<"client: (name: \"">> \o name \o <<"\"", ")">>)
        \o RenderItems(items)
        \o (IF tax_rate = "" THEN <<>> ELSE <<"tax_rate: ", tax_rate>>)
        \o (IF flag = "none" THEN <<>> ELSE <<FlagTok("is_paid", flag = "true")>>)
        \o <<")">>

\* Paid, 100, January 2025.
R1 == SumFile(2025, [y |-> 2025, m |-> 1, d |-> 10], 1, PAID, "acme")
\* Unpaid, 50, January 2025, of a contact-only client.
R2 == SumFile(2025, [y |-> 2025, m |-> 1, d |-> 20], 1, <<>>, "bob")
\* Unpaid, 10.05 at 0.08, February 2025; the name has Attn: in its middle.
R3 == SumFile(2025, [y |-> 2025, m |-> 2, d |-> 5], 1, <<>>, "bob")
\* Named _PAID, with a text that has no is_paid field; March 2025.
R4 == SumFile(2025, [y |-> 2025, m |-> 3, d |-> 10], 1, PAID, "acme")
\* Unpaid, December 2024.
R5 == SumFile(2024, [y |-> 2024, m |-> 12, d |-> 15], 1, <<>>, "acme")
\* Unpaid, January 2025, without a client record.
R6 == SumFile(2025, [y |-> 2025, m |-> 1, d |-> 12], 1, <<>>, "acme")

\* path -> content
RowUniverse ==
    [f \in {R1, R2, R3, R4, R5, R6} |->
        CASE f = R1 -> RowDoc(<<"Acme Co">>, <<"100.00">>, "", "true")
          [] f = R2 -> RowDoc(<<"Attn:", " ", "Bob">>, <<"50.00">>, "", "false")
          [] f = R3 -> RowDoc(<<"Bob", " ", "Attn:", " ", "Sales">>, <<"10.05">>, "0.08", "false")
          [] f = R4 -> RowDoc(<<"Acme Co">>, <<"20.00">>, "0.08", "none")
          [] f = R5 -> RowDoc(<<"Acme Co">>, <<"5.00">>, "0.08", "false")
          [] f = R6 -> RowDoc(<<>>, <<"7">>, "", "false")]

InitRows ==
    /\ \E S \in SUBSET DOMAIN RowUniverse :
          /\ files = [f \in S |-> RowUniverse[f]]
          /\ \E empty \in SUBSET {[year |-> 2025, client |-> "acme"]} :
                dirs = {[year |-> f.year, client |-> f.client] : f \in S} \cup empty
    /\ pc = [p \in Procs |-> "idle"]
    /\ op = [p \in Procs |-> NoOp]
    /\ out = [p \in Procs |-> <<>>]
    /\ nNew = 0
    /\ nFaults = 0
    /\ hist = <<>>

(***************************************************************************)
(* Specifications                                                          *)
(***************************************************************************)
Init ==
    /\ files = <<>>
    /\ dirs = {}
    /\ pc = [p \in Procs |-> "idle"]
    /\ op = [p \in Procs |-> NoOp]
    /\ out = [p \in Procs |-> <<>>]
    /\ nNew = 0
    /\ nFaults = 0
    /\ hist = <<>>

\* One operator, one command at a time; every file-system call succeeds.
Next ==
    \E p \in SeqProcs :
       \/ NewInvoice(p)
       \/ ChangeInvoiceStatus(p)
       \/ VoidInvoice(p)

Spec == Init /\ [][Next]_vars

\* The same, with file-system calls that may fail.
NextFault ==
    \E p \in SeqProcs :
       \/ NewInvoice(p)
       \/ ChangeInvoiceStatus(p)
       \/ VoidInvoice(p)
       \/ Faults(p)

SpecFault == Init /\ [][NextFault]_vars

\* The id generator on any ledger: invoices are created, none changes status.
NextGen == \E p \in SeqProcs : NewInvoice(p)

SpecGen == InitTree /\ [][NextGen]_vars

\* Status changes and summaries on a ledger with legacy documents.
NextLegacy ==
    \E p \in SeqProcs :
       \/ ChangeInvoiceStatus(p)
       \/ VoidInvoice(p)
       \/ ShowSummary(p)

SpecLegacy == InitLegacy /\ [][NextLegacy]_vars

\* The external compiler is not installed: typst --version and typst compile
\* cannot be run, whatever the command.
NextNoTypst ==
    \E p \in SeqProcs :
       \/ NewNoTypst(p)
       \/ ChangeNoOutput(p)
       \/ ChangeNoMatch(p)
       \/ ChangeCancel(p)
       \/ ChangeSelect(p)
       \/ ChangeWrite(p)
       \/ ChangeRemoveTyp(p)
       \/ ChangeRemovePdf(p)
       \/ ChangeCompileFail(p)
       \/ VoidNoOutput(p)
       \/ VoidNoMatch(p)
       \/ VoidCancel(p)
       \/ VoidSelect(p)
       \/ VoidWrite(p)
       \/ VoidRemoveTyp(p)
       \/ VoidRemovePdf(p)
       \/ VoidCompileFail(p)

SpecNoTypst == InitTree /\ [][NextNoTypst]_vars

\* Summaries of any year on any ledger of the documents above.
NextSum == \E p \in SeqProcs : ShowSummary(p)

SpecSum == InitSum /\ [][NextSum]_vars

\* Summaries on the ledger of the table rows, where a file may be unreadable.
NextRows ==
    \E p \in SeqProcs :
       \/ ShowSummary(p)
       \/ ShowTablesReadFail(p)

SpecRows == InitRows /\ [][NextRows]_vars

(***************************************************************************)
(* list_invoices_by_status(root, show_paid)                                *)
(***************************************************************************)
\* path.strip_prefix(root.join("output")): year, client directory, file name.
RelativePath(path) == <<path.year, path.client, FileName(path)>>

\* The test a compiled file's stem has to pass to be printed.
ListFilterKeepVoid(name, show_paid) == EndsWith(name, PAID) = show_paid
ListFilter(name, show_paid) ==
    IF EndsWith(name, VOID) THEN FALSE
    ELSE LET is_paid == EndsWith(name, PAID) IN is_paid = show_paid

\* The entries printed, in whatever order read_dir yields them.
Listed(fs, show_paid) ==
    {RelativePath(f) : f \in {g \in DOMAIN fs : g.ext = "pdf" /\ ListFilter(g.stem, show_paid)}}

ListCmd(show_paid) == IF show_paid THEN "paid" ELSE "unpaid"

ListHeader(show_paid) ==
    IF show_paid THEN "--- List of PAID Invoices ---" ELSE "--- List of UNPAID Invoices ---"

ListInvoicesByStatus(p) ==
    /\ pc[p] = "idle"
    /\ \E show_paid \in BOOLEAN :
          LET entries == Listed(files, show_paid) IN
          /\ op' = [op EXCEPT ![p] = [NoOp EXCEPT !.cmd = ListCmd(show_paid),
                                                  !.listing = entries]]
          /\ out' = [out EXCEPT ![p] =
                        IF entries = {} THEN <<ListHeader(show_paid), "(None found)">>
                        ELSE <<ListHeader(show_paid)>>]
    /\ UNCHANGED <<files, dirs, pc, nNew, nFaults, hist>>

\* The commands of Next and the two listings.
NextList ==
    \E p \in SeqProcs :
       \/ NewInvoice(p)
       \/ ChangeInvoiceStatus(p)
       \/ VoidInvoice(p)
       \/ ListInvoicesByStatus(p)

SpecList == Init /\ [][NextList]_vars

\* Two invocations of the new-invoice command at once, from an empty tree.
NextRace == \E p \in Procs : NewInvoice(p)

SpecRace == Init /\ [][NextRace]_vars

(***************************************************************************)
(* Properties                                                              *)
(***************************************************************************)
\* No command is under way.
Quiet == \A p \in Procs : pc[p] = "idle"

StatusCmds == {"pay", "unpay", "void"}

\* A pay, unpay or void of p that got past the selection and the read.
Transition(p) == op[p].cmd \in StatusCmds /\ op[p].old # NoPath

\* The invoice id a stem starts with: HI<YYYYMMDD>-<NN>.
IdOf(stem) ==
    SubSeq(stem, 1, 11) \o TakeWhileNumeric(SubSeq(stem, 12, Len(stem)))

\* The status a stem encodes.
Classify(stem) ==
    IF EndsWith(stem, VOID) THEN "VOID"
    ELSE IF EndsWith(stem, PAID) THEN "PAID"
    ELSE "UNPAID"

\* The sequence numbers found for `date`: the digits after HI<YYYYMMDD>- of
\* every file name under the year's directory.
SeqsFor(date) ==
    LET pre == Prefix(date) \o <<"-">>
        named == {f \in DOMAIN files : f.year = date.y /\ StartsWith(FileName(f), pre)}
    IN {ParseU32(TakeWhileNumeric(SubSeq(FileName(f), Len(pre) + 1, Len(FileName(f))))) :
           f \in named} \ {-1}

MaxOf(S) == IF S = {} THEN 0 ELSE CHOOSE m \in S : \A x \in S : x <= m

\* C1: between commands no two source documents of a year carry the same
\* invoice id; a status change keeps the id of the document it renames, and
\* a source file that a step removes leaves a document with its id behind.
C1_UniqueIds ==
    /\ [](Quiet => \A f, g \in TypFiles :
                      (f # g /\ f.year = g.year) => IdOf(f.stem) # IdOf(g.stem))
    /\ [](\A p \in Procs : Transition(p) => IdOf(op[p].new.stem) = IdOf(op[p].old.stem))
    /\ [][\A f \in TypFiles \ TypFiles' :
             \E g \in TypFiles' : g.year = f.year /\ IdOf(g.stem) = IdOf(f.stem)]_vars

\* An invoice was created for a date on which an earlier invoice, by now
\* renamed _PAID or _VOID, holds sequence 01: it got sequence 02.
C1_Witness ==
    /\ Quiet
    /\ op[1].cmd = "new"
    /\ Exists(op[1].new)
    /\ op[1].idx = 2
    /\ \E f \in TypFiles :
          /\ f.year = op[1].new.year
          /\ IdOf(f.stem) = InvoiceId(op[1].date, 1)
          /\ Classify(f.stem) # "UNPAID"

\* C2: the sequence the generator computes is max + 1 over the numbers
\* parsed for the date under its year (1 when there is none), above every
\* one of them; after no invoice it is 01, after 01 alone it is 02.
C2_MaxPlusOne ==
    \A p \in Procs :
       pc[p] = "new_write" =>
          LET S == SeqsFor(op[p].date)
              id == IdOf(op[p].new.stem)
          IN /\ op[p].idx = MaxOf(S) + 1
             /\ \A x \in S : op[p].idx > x
             /\ id = InvoiceId(op[p].date, op[p].idx)
             /\ S = {} => id = Prefix(op[p].date) \o <<"-", "0", "1">>
             /\ S = {1} => id = Prefix(op[p].date) \o <<"-", "0", "2">>

\* The second invoice of a day is being written as -02.
C2_Witness ==
    /\ pc[1] = "new_write"
    /\ SeqsFor(op[1].date) = {1}
    /\ IdOf(op[1].new.stem) = Prefix(op[1].date) \o <<"-", "0", "2">>
    /\ \E f \in TypFiles : IdOf(f.stem) = Prefix(op[1].date) \o <<"-", "0", "1">>

\* Whether no file name under the year of `date` starts with the id of n.
Unused(date, n) ==
    \A f \in DOMAIN files :
       f.year = date.y => ~StartsWith(FileName(f), InvoiceId(date, n))

LowestUnused(date) ==
    CHOOSE n \in 1..(Cardinality(DOMAIN files) + 1) :
       Unused(date, n) /\ \A m \in 1..(n - 1) : ~Unused(date, m)

\* C3 as stated: the generator yields the lowest unused sequence.
C3_LowestUnused ==
    \A p \in Procs : pc[p] = "new_write" => op[p].idx = LowestUnused(op[p].date)

\* C3 amended: the generator yields the lowest sequence, counting from 01,
\* that is above every sequence found for the date; after 02 alone it is 03.
C3_LowestAboveAll ==
    \A p \in Procs :
       pc[p] = "new_write" =>
          LET S == SeqsFor(op[p].date)
              Above(n) == \A x \in S : x < n
          IN /\ Above(op[p].idx)
             /\ op[p].idx >= 1
             /\ \A m \in 1..(op[p].idx - 1) : ~Above(m)
             /\ S = {2} => IdOf(op[p].new.stem) = Prefix(op[p].date) \o <<"-", "0", "3">>

\* Only sequence 02 exists for the date, and the new invoice is written as 03.
C3_Witness ==
    /\ pc[1] = "new_write"
    /\ SeqsFor(op[1].date) = {2}
    /\ op[1].idx = 3
    /\ Unused(op[1].date, 1)

\* C4: a source file whose stem ends with _VOID is no candidate of pay,
\* unpay or void, and no step removes it or changes its text.
C4_VoidAbsorbing ==
    /\ [](\A f \in TypFiles :
             EndsWith(f.stem, VOID) =>
                /\ f \notin ChangeCandidates(files, TRUE)
                /\ f \notin ChangeCandidates(files, FALSE)
                /\ f \notin VoidCandidates(files)
                /\ \A p \in Procs : pc[p] # "idle" => op[p].old # f)
    /\ [][\A f \in TypFiles :
             EndsWith(f.stem, VOID) => f \in DOMAIN files' /\ files'[f] = files[f]]_vars

\* An unpay has completed while a voided document lies in the ledger.
C4_Witness ==
    /\ Quiet
    /\ op[1].cmd = "unpay"
    /\ Exists(op[1].new)
    /\ \E f \in TypFiles : EndsWith(f.stem, VOID)

\* C5: for every source document, the stem ends with _PAID exactly when the
\* text carries is_paid: true, and with _VOID exactly when it carries
\* is_void: true.
C5_SuffixFlagAgree ==
    \A f \in TypFiles :
       /\ EndsWith(f.stem, PAID) <=> Contains(files[f], <<"is_paid: true">>)
       /\ EndsWith(f.stem, VOID) <=> Contains(files[f], <<"is_void: true">>)

\* A paid and a voided document lie in the ledger.
C5_Witness ==
    /\ Quiet
    /\ \E f \in TypFiles : EndsWith(f.stem, PAID) /\ Contains(files[f], <<"is_paid: true">>)
    /\ \E f \in TypFiles : EndsWith(f.stem, VOID) /\ Contains(files[f], <<"is_void: true">>)

\* C6: an unpay of the document a pay produced gives back the path and the
\* text the pay started from.
C6_PayUnpayRoundTrip ==
    \A p \in Procs :
       (op[p].cmd = "unpay" /\ op[p].old \in DOMAIN hist) =>
          /\ op[p].new = hist[op[p].old].path
          /\ op[p].content = hist[op[p].old].text
          /\ pc[p] \in {"st_rm_typ", "st_rm_pdf", "st_compile", "idle"} =>
                Exists(op[p].new) /\ files[op[p].new] = hist[op[p].old].text

\* An unpay of a document that pay had produced has completed.
C6_Witness ==
    /\ Quiet
    /\ op[1].cmd = "unpay"
    /\ op[1].old \in DOMAIN hist
    /\ Exists(op[1].new)
    /\ ~Exists(op[1].old)

AllowedChanges ==
    {<<"UNPAID", "PAID">>, <<"PAID", "UNPAID">>, <<"UNPAID", "VOID">>}

\* C7: a source file that appears is a new UNPAID invoice or takes the place
\* of the document with its id by one of UNPAID -> PAID, PAID -> UNPAID,
\* UNPAID -> VOID; void never offers a PAID document.
C7_StatusChanges ==
    /\ [](\A f \in VoidCandidates(files) : Classify(f.stem) # "PAID")
    /\ [][\A f \in TypFiles' \ TypFiles :
             LET prev == {g \in TypFiles : g.year = f.year /\ IdOf(g.stem) = IdOf(f.stem)}
             IN IF prev = {} THEN Classify(f.stem) = "UNPAID"
                ELSE \A g \in prev : <<Classify(g.stem), Classify(f.stem)>> \in AllowedChanges]_vars

\* A voided document that had been paid, hence unpaid, before.
C7_Witness ==
    /\ Quiet
    /\ \E f \in TypFiles :
          /\ Classify(f.stem) = "VOID"
          /\ \E g \in DOMAIN hist : g.year = f.year /\ IdOf(g.stem) = IdOf(f.stem)

\* C8: the candidates of pay are the UNPAID source documents of the whole
\* output tree, those of unpay the PAID ones, those of void the UNPAID ones.
C8_Candidates ==
    LET Docs(status) == {f \in DOMAIN files : f.ext = "typ" /\ Classify(f.stem) = status}
    IN /\ ChangeCandidates(files, TRUE) = Docs("UNPAID")
       /\ ChangeCandidates(files, FALSE) = Docs("PAID")
       /\ VoidCandidates(files) = Docs("UNPAID")

\* An unpay has selected its document while a voided document of another
\* year lies in the ledger.
C8_Witness ==
    /\ pc[1] = "st_write"
    /\ op[1].cmd = "unpay"
    /\ op[1].old \in ChangeCandidates(files, FALSE)
    /\ \E f \in TypFiles : Classify(f.stem) = "VOID" /\ f.year # op[1].old.year

\* C9: from the selection on, the old source file with the text read or
\* the new source file with the rewritten text exists; the old one is gone
\* only when the new one is there.
C9_NeverZeroCopies ==
    \A p \in Procs :
       Transition(p) =>
          \/ Exists(op[p].old) /\ files[op[p].old] = op[p].read
          \/ Exists(op[p].new) /\ files[op[p].new] = op[p].content

\* A write of the new source file has failed part-way, leaving it empty.
C9_Witness ==
    /\ Quiet
    /\ Transition(1)
    /\ op[1].failed
    /\ Exists(op[1].new)
    /\ files[op[1].new] = <<>>

FailureLines ==
    {"panic: Failed to write updated .typ", "Re-compilation failed."}

\* C10 as stated: a pay, unpay or void one of whose steps failed has
\* printed a failure.
C10_FailureReported ==
    \A p \in Procs :
       (pc[p] = "idle" /\ op[p].cmd \in StatusCmds /\ op[p].failed) =>
          \E i \in 1..Len(out[p]) : out[p][i] \in FailureLines

HasField(text, key) ==
    \E i \in 1..Len(text) : text[i] \in {FlagTok(key, TRUE), FlagTok(key, FALSE)}

\* C11 as stated: a pay or unpay of a document whose text has no is_paid
\* field writes a text that carries the flag with the target value, put in
\* just before the final closing delimiter.
C11_LegacyPaidInserted ==
    \A p \in Procs :
       (op[p].cmd \in {"pay", "unpay"} /\ Transition(p) /\ ~HasField(op[p].read, "is_paid")) =>
          LET tok == FlagTok("is_paid", op[p].cmd = "pay")
              k == RFind(op[p].read, ")")
          IN /\ Contains(op[p].content, <<tok>>)
             /\ op[p].content = SubSeq(op[p].read, 1, k - 1) \o <<", ", tok>>
                                   \o SubSeq(op[p].read, k, Len(op[p].read))

\* C12: a void of a document whose text has no is_void field writes the
\* text with ', is_void: true' put in right before its last closing
\* parenthesis, under the stem with _VOID added; a document so voided is no
\* candidate of pay, unpay or void and no summary counts it.
C12_LegacyVoid ==
    /\ \A p \in Procs :
          (op[p].cmd = "void" /\ Transition(p) /\ ~HasField(op[p].read, "is_void")) =>
             \E k \in 1..Len(op[p].read) :
                /\ op[p].read[k] = ")"
                /\ \A j \in (k + 1)..Len(op[p].read) : op[p].read[j] # ")"
                /\ op[p].content = SubSeq(op[p].read, 1, k - 1) \o <<", ", "is_void: true">>
                                      \o SubSeq(op[p].read, k, Len(op[p].read))
                /\ op[p].new = [op[p].old EXCEPT !.stem = op[p].old.stem \o VOID]
                /\ pc[p] \in {"st_rm_typ", "st_rm_pdf", "st_compile", "idle"} =>
                      Exists(op[p].new) /\ files[op[p].new] = op[p].content
    /\ \A f \in TypFiles :
          (EndsWith(f.stem, VOID) /\ Contains(files[f], <<", ", "is_void: true">>)) =>
             /\ f \notin ChangeCandidates(files, TRUE)
             /\ f \notin ChangeCandidates(files, FALSE)
             /\ f \notin VoidCandidates(files)
             /\ f \notin DOMAIN InvoiceInfos(files)
    /\ \A p \in Procs : \A f \in DOMAIN op[p].summary.infos : ~EndsWith(f.stem, VOID)

\* A summary of 2023 was shown after a legacy document of 2023 was voided:
\* it counts the other document of that year only.
C12_Witness ==
    /\ Quiet
    /\ op[1].cmd = "summary"
    /\ op[1].summary.year = 2023
    /\ DOMAIN op[1].summary.monthly = {<<2023, 1>>}
    /\ \E f \in TypFiles :
          /\ f.year = 2023
          /\ EndsWith(f.stem, VOID)
          /\ Contains(files[f], <<", ", "is_void: true", ")">>)
          /\ ~Contains(files[f], <<"is_paid: false">>)

\* C13 as stated: with the compiler absent, a command that has ended left
\* the tree as it was: a new-invoice wrote nothing, and after a pay, unpay
\* or void the selected source file is still there with its text and no
\* file stands under the new name.
C13_NoPartialState ==
    \A p \in Procs :
       pc[p] = "idle" =>
          /\ op[p].cmd = "new" => op[p].new = NoPath
          /\ Transition(p) =>
                /\ Exists(op[p].old)
                /\ files[op[p].old] = op[p].read
                /\ ~Exists(op[p].new)

Printed(p, line) == \E i \in 1..Len(out[p]) : out[p][i] = line

SuccessLines == {"Done!", "Done! Invoice marked as VOID."}

\* The status a completed command of p gave its document.
TargetStatus(p) ==
    CASE op[p].cmd = "pay" -> "PAID"
      [] op[p].cmd = "unpay" -> "UNPAID"
      [] op[p].cmd = "void" -> "VOID"

\* C14: after a pay, unpay or void whose recompilation failed, the new
\* source file is there with the rewritten text under the name of the new
\* status and the old one is gone (nothing is rolled back); the operator has
\* seen the recompilation-failed message and no success message.  A success
\* message is only seen when the binary was compiled.
C14_RecompileFailed ==
    \A p \in Procs :
       (pc[p] = "idle" /\ Transition(p)) =>
          /\ op[p].failed =>
                /\ Exists(op[p].new)
                /\ files[op[p].new] = op[p].content
                /\ ~Exists(op[p].old)
                /\ Classify(op[p].new.stem) = TargetStatus(p)
                /\ Printed(p, "Re-compilation failed.")
                /\ \A line \in SuccessLines : ~Printed(p, line)
          /\ (\E line \in SuccessLines : Printed(p, line)) =>
                /\ ~op[p].failed
                /\ Exists(WithExtension(op[p].new, "pdf"))
                /\ files[WithExtension(op[p].new, "pdf")] = Compiled(op[p].content)

\* A void has ended with a failed recompilation: the voided source has no
\* binary.
C14_Witness ==
    /\ Quiet
    /\ op[1].cmd = "void"
    /\ Transition(1)
    /\ op[1].failed
    /\ Exists(op[1].new)
    /\ ~Exists(WithExtension(op[1].new, "pdf"))

\* C15: a pay, unpay or void whose read of the selected document or whose
\* write of the new source file fails ends there: the failing step deletes
\* no file and changes none but the one being written, no later step runs,
\* the selected source keeps its text, and the compiler is not invoked.
C15_FailedRewriteAborts ==
    /\ [](\A p \in Procs :
             (pc[p] = "idle" /\ Transition(p)
                 /\ Printed(p, "panic: Failed to write updated .typ")) =>
                /\ Exists(op[p].old)
                /\ files[op[p].old] = op[p].read
                /\ ~Printed(p, "Renaming")
                /\ ~Printed(p, "Re-compiling..."))
    /\ [][\A p \in Procs :
             (/\ nFaults' # nFaults
              /\ op'[p].cmd \in StatusCmds
              /\ \/ pc[p] = "idle" /\ out'[p] # out[p]
                 \/ pc[p] = "st_write") =>
                /\ pc'[p] = "idle"
                /\ DOMAIN files \subseteq DOMAIN files'
                /\ \A f \in DOMAIN files : f # op'[p].new => files'[f] = files[f]
                /\ ~\E i \in 1..Len(out'[p]) : out'[p][i] = "Re-compiling..."]_vars

\* The write of the new source file has failed with nothing created: the
\* selected source and its binary are still there.
C15_Witness ==
    /\ Quiet
    /\ Transition(1)
    /\ Printed(1, "panic: Failed to write updated .typ")
    /\ ~Exists(op[1].new)
    /\ Exists(op[1].old)
    /\ Exists(WithExtension(op[1].old, "pdf"))

\* C16: the step in which the operator cancels the selection of pay, unpay
\* or void changes no file (name, text or binary) and no directory and ends
\* the command; nothing was selected and the compiler was not invoked.
C16_CancelNoMutation ==
    /\ [](\A p \in Procs :
             (pc[p] = "idle" /\ op[p].cmd \in StatusCmds /\ Printed(p, "Cancelled")) =>
                /\ op[p].old = NoPath
                /\ ~op[p].failed
                /\ out[p] = <<"Scanning invoices...", "Cancelled">>)
    /\ [][\A p \in Procs :
             (/\ pc[p] = "idle"
              /\ op'[p].cmd \in StatusCmds
              /\ \E i \in 1..Len(out'[p]) : out'[p][i] = "Cancelled") =>
                /\ files' = files
                /\ dirs' = dirs
                /\ pc'[p] = "idle"]_vars

\* A void was cancelled while a document with its binary was on offer.
C16_Witness ==
    /\ Quiet
    /\ op[1].cmd = "void"
    /\ Printed(1, "Cancelled")
    /\ \E f \in VoidCandidates(files) : Exists(WithExtension(f, "pdf"))

\* C17: after a completed pay, unpay or void neither the source nor a
\* binary remains under the old stem, a binary compiled by it stands under
\* the new stem; and between commands every binary has a source file of its
\* own stem next to it, and no source of the same invoice under another stem.
C17_Lockstep ==
    /\ \A p \in Procs :
          (pc[p] = "idle" /\ Transition(p)) =>
             /\ ~Exists(WithExtension(op[p].old, "pdf"))
             /\ ~Exists(op[p].old)
             /\ \A g \in PdfFiles :
                   (g.year = op[p].new.year /\ IdOf(g.stem) = IdOf(op[p].new.stem)) =>
                      g = WithExtension(op[p].new, "pdf")
    /\ Quiet =>
          \A g \in PdfFiles :
             /\ Exists(WithExtension(g, "typ"))
             /\ \A f \in TypFiles :
                   (f.year = g.year /\ IdOf(f.stem) = IdOf(g.stem)) =>
                      f = WithExtension(g, "typ")

\* An unpay has completed and its binary was compiled, next to another
\* invoice that is paid and has its binary.
C17_Witness ==
    /\ Quiet
    /\ op[1].cmd = "unpay"
    /\ Transition(1)
    /\ Exists(WithExtension(op[1].new, "pdf"))
    /\ \E g \in PdfFiles : EndsWith(g.stem, PAID)

\* The sum of the paid (side 1) or unpaid (side 2) totals of a grouping.
RECURSIVE SumSide(_, _, _)
SumSide(grouping, keys, side) ==
    IF keys = {} THEN 0
    ELSE LET k == CHOOSE x \in keys : TRUE IN
         (IF side = 1 THEN grouping[k].paid ELSE grouping[k].unpaid)
            + SumSide(grouping, keys \ {k}, side)

Summarised(p) == op[p].cmd = "summary" /\ op[p].summary.year # 0

\* C18: in every summary shown, the paid sums of the months add up to the
\* paid sums of the clients, and the unpaid sums likewise; both are the sum
\* over the invoices of the year, each counted once.
C18_GroupingsAgree ==
    \A p \in Procs :
       Summarised(p) =>
          LET sm == op[p].summary
              ofYear == {f \in DOMAIN sm.infos : sm.infos[f].date.y = sm.year}
              paid == SumTotals(sm.infos, {f \in ofYear : sm.infos[f].is_paid})
              unpaid == SumTotals(sm.infos, {f \in ofYear : ~sm.infos[f].is_paid})
          IN /\ SumSide(sm.monthly, DOMAIN sm.monthly, 1) = paid
             /\ SumSide(sm.clients, DOMAIN sm.clients, 1) = paid
             /\ SumSide(sm.monthly, DOMAIN sm.monthly, 2) = unpaid
             /\ SumSide(sm.clients, DOMAIN sm.clients, 2) = unpaid

\* A summary of two months and two clients, with paid and unpaid invoices
\* in a month and for a client.
C18_Witness ==
    /\ Summarised(1)
    /\ Cardinality(DOMAIN op[1].summary.monthly) = 2
    /\ Cardinality(DOMAIN op[1].summary.clients) >= 2
    /\ \E k \in DOMAIN op[1].summary.monthly :
          op[1].summary.monthly[k].paid > 0 /\ op[1].summary.monthly[k].unpaid > 0
    /\ \E c \in DOMAIN op[1].summary.clients :
          op[1].summary.clients[c].paid > 0 /\ op[1].summary.clients[c].unpaid > 0

\* The date written in an identifier HI<YYYYMMDD>-<NN>.
IdDate(stem) ==
    [y |-> ParseDigits(SubSeq(stem, 3, 6), 0),
     m |-> ParseDigits(SubSeq(stem, 7, 8), 0),
     d |-> ParseDigits(SubSeq(stem, 9, 10), 0)]

IsCalendarDate(date) == date.m \in 1..12 /\ date.d \in 1..DaysIn(date.y, date.m)

\* C19: the buckets of a summary of year Y are the (year, month) of the
\* dates written in the identifiers of the source files whose stem does not
\* end with _VOID and whose date lies in Y; each such document adds its
\* total to the paid sum of its bucket when its text says is_paid: true, to
\* the unpaid sum otherwise, and nothing else is added to any bucket.
C19_Contributes ==
    \A p \in Procs :
       Summarised(p) =>
          LET sm == op[p].summary
              E == {f \in TypFiles : /\ ~EndsWith(f.stem, VOID)
                                     /\ IsCalendarDate(IdDate(f.stem))
                                     /\ IdDate(f.stem).y = sm.year}
              Bucket(f) == <<IdDate(f.stem).y, IdDate(f.stem).m>>
              Flag(f) == Contains(files[f], <<"is_paid: true">>)
          IN /\ E \subseteq DOMAIN sm.infos
             /\ DOMAIN sm.monthly = {Bucket(f) : f \in E}
             /\ \A k \in DOMAIN sm.monthly :
                   /\ sm.monthly[k].paid =
                         SumTotals(sm.infos, {f \in E : Bucket(f) = k /\ Flag(f)})
                   /\ sm.monthly[k].unpaid =
                         SumTotals(sm.infos, {f \in E : Bucket(f) = k /\ ~Flag(f)})

\* A summary of 2025 over a ledger with a voided document, a document dated
\* 2024 in the directory of 2025, a file name that is no date and a text
\* that says paid under a stem that does not.
C19_Witness ==
    /\ Summarised(1)
    /\ op[1].summary.year = 2025
    /\ {S1, S4, S5, S6, S7} \subseteq DOMAIN files
    /\ <<2025, 3>> \in DOMAIN op[1].summary.monthly
    /\ op[1].summary.monthly[<<2025, 3>>].paid > 0
    /\ op[1].summary.monthly[<<2025, 3>>].unpaid > 0

\* The amounts (in hundredths) and the tax rate (in hundredths) written in
\* the documents of the summary ledger; the rate is 0 where none is written.
ItemsOf(f) ==
    CASE f = S1 -> <<1000, 2000, 500>>
      [] f = S2 -> <<10000>>
      [] f = S3 -> <<5000>>
      [] f = S4 -> <<700>>
      [] f = S5 -> <<10000>>
      [] f = S6 -> <<10000>>
      [] f = S7 -> <<2000, -500>>
      [] f = S8 -> <<1000>>

RateOf(f) == IF f \in {S3, S8} THEN 0 ELSE IF f = S4 THEN 10 ELSE 8

RECURSIVE SumSeq(_)
SumSeq(q) == IF q = <<>> THEN 0 ELSE Head(q) + SumSeq(Tail(q))

\* C20 as stated: the total extracted from a document is the sum of all its
\* amount values times (1 + tax_rate), with tax_rate 0 when none is written;
\* 10.00 + 20.00 + 5.00 at 0.08 give 37.80 (totals are in ten-thousandths).
C20_TotalIsSum ==
    \A p \in Procs :
       Summarised(p) =>
          \A f \in DOMAIN op[p].summary.infos :
             /\ op[p].summary.infos[f].total = SumSeq(ItemsOf(f)) * (100 + RateOf(f))
             /\ f = S1 => op[p].summary.infos[f].total = 378000

\* C21: a summary in which the text of some documents could not be read
\* was not aborted: it shows the groupings of the tree without those
\* documents, every other document of the year contributing its total.
C21_UnreadableSkipped ==
    \A p \in Procs :
       (Summarised(p) /\ op[p].summary.unreadable # {}) =>
          LET sm == op[p].summary
              rest == [f \in DOMAIN files \ sm.unreadable |-> files[f]]
              others == {f \in DOMAIN InvoiceInfos(files) \ sm.unreadable :
                            InvoiceInfos(files)[f].date.y = sm.year}
          IN /\ Printed(p, "--- Monthly Invoice Summary ---")
             /\ Printed(p, "--- Client Summary ---")
             /\ sm.monthly = MonthlyTotals(InvoiceInfos(rest), sm.year)
             /\ sm.clients = ClientTotals(InvoiceInfos(rest), sm.year)
             /\ SumSide(sm.monthly, DOMAIN sm.monthly, 1)
                   + SumSide(sm.monthly, DOMAIN sm.monthly, 2)
                = SumTotals(InvoiceInfos(files), others)
             /\ SumSide(sm.clients, DOMAIN sm.clients, 1)
                   + SumSide(sm.clients, DOMAIN sm.clients, 2)
                = SumTotals(InvoiceInfos(files), others)

\* A summary of 2025 with one document of January unreadable and another
\* document of January counted.
C21_Witness ==
    /\ Summarised(1)
    /\ op[1].summary.year = 2025
    /\ op[1].summary.unreadable = {R1}
    /\ R2 \in DOMAIN op[1].summary.infos
    /\ op[1].summary.monthly[<<2025, 1>>].unpaid > 0
    /\ op[1].summary.monthly[<<2025, 1>>].paid = 0

\* C22: the rows of the monthly table are the months of the summary from
\* the newest to the oldest, each showing its paid sum, its unpaid sum and
\* the sum of the two; the trailing row shows the sums of the paid and of
\* the unpaid column over the months and their sum (all with two decimals).
\* One paid invoice of 100 and one unpaid of 50 in January 2025 give the row
\* (100.00, 50.00, 150.00) and the same total row.
C22_MonthlyTable ==
    \A p \in Procs :
       Summarised(p) =>
          LET sm == op[p].summary
              n == Len(sm.rows)
              KeyAt(i) == CHOOSE k \in DOMAIN sm.monthly : MonthStr(k) = sm.rows[i][1]
              paid == SumSide(sm.monthly, DOMAIN sm.monthly, 1)
              unpaid == SumSide(sm.monthly, DOMAIN sm.monthly, 2)
          IN /\ n = Cardinality(DOMAIN sm.monthly)
             /\ \A i \in 1..n :
                   /\ \E k \in DOMAIN sm.monthly : MonthStr(k) = sm.rows[i][1]
                   /\ sm.rows[i][2] = Fmt2(sm.monthly[KeyAt(i)].paid)
                   /\ sm.rows[i][3] = Fmt2(sm.monthly[KeyAt(i)].unpaid)
                   /\ sm.rows[i][4] = Fmt2(sm.monthly[KeyAt(i)].paid
                                              + sm.monthly[KeyAt(i)].unpaid)
             /\ \A i \in 1..(n - 1) : KeyAt(i)[2] > KeyAt(i + 1)[2]
             /\ sm.total_row[2] = Fmt2(paid)
             /\ sm.total_row[3] = Fmt2(unpaid)
             /\ sm.total_row[4] = Fmt2(paid + unpaid)
             /\ (sm.year = 2025 /\ DOMAIN sm.infos \cap {R1, R2, R3, R4, R6} = {R1, R2}) =>
                   LET cells == << <<"$", "1", "0", "0", ".", "0", "0">>,
                                   <<"$", "5", "0", ".", "0", "0">>,
                                   <<"$", "1", "5", "0", ".", "0", "0">> >>
                   IN /\ sm.rows = << <<<<"January", " ", "2", "0", "2", "5">>>> \o cells >>
                      /\ SubSeq(sm.total_row, 2, 4) = cells

\* A summary of 2025 over the paid invoice of 100 and the unpaid one of 50
\* of January.
C22_Witness ==
    /\ Summarised(1)
    /\ op[1].summary.year = 2025
    /\ DOMAIN op[1].summary.infos \cap {R1, R2, R3, R4, R6} = {R1, R2}
    /\ Len(op[1].summary.rows) = 1
    /\ op[1].summary.rows[1][4] = <<"$", "1", "5", "0", ".", "0", "0">>

\* The invoice id a new-invoice command has computed.
PendingId(p) == InvoiceId(op[p].date, op[p].idx)

\* Some file of the year carries the id in its name.
IdInTree(id, year) == \E f \in DOMAIN files : f.year = year /\ StartsWith(f.stem, id)

\* Both commands have scanned and neither has written its file.
BothScanned(p, q) ==
    /\ p # q
    /\ pc[p] = "new_write" /\ pc[q] = "new_write"
    /\ op[p].date = op[q].date
    /\ ~IdInTree(PendingId(p), op[p].date.y)
    /\ ~IdInTree(PendingId(q), op[q].date.y)

\* C23: two new-invoice commands for the same date that have both scanned
\* the year's tree before either has written its file hold the same invoice
\* id; the write of each is enabled all the same, and a command that ends
\* prints only the lines of the compilation, whatever the other one did.
C23_RaceSameId ==
    \A p \in Procs :
       /\ \A q \in Procs : BothScanned(p, q) => op[p].idx = op[q].idx
       /\ pc[p] = "new_write" => ENABLED NewWrite(p)
       /\ (pc[p] = "idle" /\ op[p].cmd = "new" /\ op[p].idx # 0) =>
             out[p] \in { <<"Compiling PDF...", "PDF Generated">>,
                          <<"Compiling PDF...", "Compilation failed.">> }

\* Both commands have ended in success with the same id, in the directories
\* of two clients.
C23_Witness ==
    /\ Quiet
    /\ \A p \in Procs : op[p].cmd = "new" /\ ~op[p].failed /\ op[p].idx = 1
    /\ op[1].date = op[2].date
    /\ op[1].new # op[2].new
    /\ Exists(op[1].new) /\ Exists(op[2].new)
    /\ Exists(WithExtension(op[1].new, "pdf")) /\ Exists(WithExtension(op[2].new, "pdf"))

\* The compiled files of the tree.
Binaries == {f \in DOMAIN files : f.ext = "pdf"}

\* The entry of a file: year directory, client directory, name with extension.
EntryOf(f) == <<f.year, f.client, f.stem \o <<".", f.ext>>>>

\* C24: the paid listing prints exactly the compiled files whose stem ends
\* with _PAID, the unpaid listing exactly those whose stem ends with neither
\* _PAID nor _VOID; a compiled file whose stem ends with _VOID is in neither,
\* and an entry is the file's path below the output directory.
C24_Listings ==
    \A p \in SeqProcs :
       /\ op[p].cmd = "paid" =>
             op[p].listing = {EntryOf(f) : f \in {g \in Binaries : EndsWith(g.stem, PAID)}}
       /\ op[p].cmd = "unpaid" =>
             op[p].listing = {EntryOf(f) : f \in {g \in Binaries :
                                 ~EndsWith(g.stem, PAID) /\ ~EndsWith(g.stem, VOID)}}
       /\ op[p].cmd \in {"paid", "unpaid"} =>
             /\ \A f \in Binaries : EndsWith(f.stem, VOID) => EntryOf(f) \notin op[p].listing
             /\ Printed(p, "(None found)") <=> op[p].listing = {}

\* A paid listing of one entry printed while the tree holds a voided
\* compiled file beside the paid one.
C24_Witness ==
    /\ op[1].cmd = "paid"
    /\ Cardinality(op[1].listing) = 1
    /\ \E f \in Binaries : EndsWith(f.stem, VOID)
    /\ \E f \in Binaries : EndsWith(f.stem, PAID) /\ EntryOf(f) \in op[1].listing

\* The name written in the client record of a text; <<>> when there is none.
NameField(content) ==
    LET starts == {i \in 1..Len(content) : content[i] = "client: (name: \""} IN
    IF starts = {} THEN <<>>
    ELSE LET i == MinOf(starts)
             j == MinOf({k \in (i + 1)..Len(content) : content[k] = "\""})
         IN SubSeq(content, i + 1, j - 1)

\* The name without a leading Attn: label, trimmed.
WithoutAttnPrefix(name) ==
    Trim(IF StartsWith(name, <<"Attn:">>) THEN Tail(name) ELSE name)

\* C25 as stated: the client name extracted from a text is the name of its
\* client record without a leading Attn: label and trimmed, an Attn: further
\* inside the name being kept; a text without a client name gives
\* "Unknown Client".
C25_AttnPrefixOnly ==
    \A p \in Procs :
       Summarised(p) =>
          \A f \in DOMAIN op[p].summary.infos :
             op[p].summary.infos[f].client =
                IF NameField(files[f]) = <<>> THEN <<"Unknown Client">>
                ELSE WithoutAttnPrefix(NameField(files[f]))

\* The stems an invoice id and a project id give with the suffix last, and
\* with the suffix between the two.
StemsSuffixLast(id, project) ==
    {FilenameBase(id, project) \o suffix : suffix \in {<<>>, PAID, VOID}}

StemsSuffixAfterId(id, project) ==
    {FilenameBase(id, project)}
        \cup {id \o suffix \o <<"_">> \o project : suffix \in {PAID, VOID}}

\* C26 as stated: the stem of a paid or voided invoice, source and binary,
\* is <invoice-id>_PAID_<project-id> or <invoice-id>_VOID_<project-id>.
C26_SuffixAfterId ==
    \A f \in DOMAIN files :
       \E project \in Projects : f.stem \in StemsSuffixAfterId(IdOf(f.stem), project)

\* C26: the stem of every file of the tree, source and binary, is
\* <invoice-id>_<project-id> followed by nothing, by _PAID or by _VOID; pay
\* appends _PAID to the stem it found and void appends _VOID.
C26_SuffixLast ==
    /\ \A f \in DOMAIN files :
          \E project \in Projects : f.stem \in StemsSuffixLast(IdOf(f.stem), project)
    /\ \A p \in Procs :
          Transition(p) =>
             /\ op[p].cmd = "pay" => op[p].new.stem = op[p].old.stem \o PAID
             /\ op[p].cmd = "void" => op[p].new.stem = op[p].old.stem \o VOID
             /\ op[p].cmd = "unpay" => op[p].old.stem = op[p].new.stem \o PAID

\* A tree with the source and the binary of a paid and of a voided invoice.
C26_Witness ==
    /\ Quiet
    /\ \E f, g \in DOMAIN files :
          /\ f.ext = "typ" /\ g.ext = "typ"
          /\ EndsWith(f.stem, PAID) /\ EndsWith(g.stem, VOID)
          /\ Exists(WithExtension(f, "pdf")) /\ Exists(WithExtension(g, "pdf"))

\* The files of a summary whose text has no is_paid field.
Flagless(sm) == {f \in DOMAIN sm.infos : ~HasField(files[f], "is_paid")}

\* C27: the extractor gives is_paid = FALSE for a text without an is_paid
\* field, whatever the name of the file ends with; in the summary the total
\* of such a document is part of the unpaid sum of its month and of its
\* client, and of neither paid sum.
C27_AbsentFlagUnpaid ==
    /\ \A f \in ScanTyp(files) :
          ~HasField(files[f], "is_paid") => ~ParseInvoiceTotal(files[f]).is_paid
    /\ \A p \in Procs :
          Summarised(p) =>
             LET sm == op[p].summary
                 Unpaid(S) == {g \in S : ~HasField(files[g], "is_paid")
                                            \/ ~sm.infos[g].is_paid}
                 Paid(S) == {g \in S : HasField(files[g], "is_paid")
                                          /\ sm.infos[g].is_paid}
             IN \A f \in Flagless(sm) :
                   /\ ~sm.infos[f].is_paid
                   /\ sm.infos[f].date.y = sm.year =>
                         LET k == MonthKey(sm.infos[f])
                             c == sm.infos[f].client
                             month == {g \in DOMAIN sm.infos : sm.infos[g].date.y = sm.year
                                                                /\ MonthKey(sm.infos[g]) = k}
                             client == {g \in DOMAIN sm.infos : sm.infos[g].date.y = sm.year
                                                                 /\ sm.infos[g].client = c}
                         IN /\ sm.monthly[k].unpaid = SumTotals(sm.infos, Unpaid(month))
                            /\ sm.monthly[k].paid = SumTotals(sm.infos, Paid(month))
                            /\ sm.clients[c].unpaid = SumTotals(sm.infos, Unpaid(client))
                            /\ sm.clients[c].paid = SumTotals(sm.infos, Paid(client))

\* A summary of 2025 with the document named _PAID that has no is_paid
\* field: its 21.60 are the unpaid sum of March, whose paid sum is 0.
C27_Witness ==
    /\ Summarised(1)
    /\ op[1].summary.year = 2025
    /\ R4 \in Flagless(op[1].summary)
    /\ EndsWith(R4.stem, PAID)
    /\ op[1].summary.monthly[<<2025, 3>>] = [paid |-> 0, unpaid |-> 216000]

\* The source files of the invoices that are not void.
LiveSources == {f \in ScanTyp(files) : ~EndsWith(f.stem, VOID)}

\* The listings that report an invoice: those that print the entry of a
\* compiled file carrying the invoice's id.
ReportedBy(f) ==
    {show_paid \in BOOLEAN :
        \E e \in Listed(files, show_paid) :
           e[1] = f.year /\ e[2] = f.client /\ StartsWith(e[3], IdOf(f.stem))}

\* C28 as stated: whenever no command is under way, every invoice whose
\* source file is not void is printed by exactly one of the two listings,
\* the paid one if the scanner finds its source file paid and the unpaid one
\* otherwise; also after a command whose compilation failed.
C28_ListedOnce ==
    Quiet => \A f \in LiveSources : ReportedBy(f) = {EndsWith(f.stem, PAID)}

\* C29 as stated: a void that has ended with its message of success left a
\* source file whose stem ends with _VOID and whose text holds
\* is_void: true, whatever the text it found was.
C29_VoidSetsFlag ==
    \A p \in Procs :
       (pc[p] = "idle" /\ op[p].cmd = "void" /\ Transition(p)
           /\ Printed(p, "Done! Invoice marked as VOID.")) =>
          /\ Exists(op[p].new)
          /\ EndsWith(op[p].new.stem, VOID)
          /\ Contains(files[op[p].new], <<"is_void: true">>)

\* The source files as they were when the command of p selected its file:
\* the tree without the new file and with the old file holding the text read.
SourcesBefore(p) ==
    [f \in (TypFiles \ {op[p].new}) \cup {op[p].old} |->
        IF f = op[p].old THEN op[p].read ELSE files[f]]

SourcesNow == [f \in TypFiles |-> files[f]]

\* What the summary of a year shows for a month or a client, paid and unpaid
\* together; nothing where it has no row.
Worth(grouping, k) ==
    IF k \in DOMAIN grouping THEN grouping[k].paid + grouping[k].unpaid ELSE 0

\* The combined totals of two trees differ by `drop` at the month and the
\* client of `info`, and nowhere else, in the summary of every year.
SameButFor(before, now, info, drop) ==
    \A y \in Years :
       LET mb == MonthlyTotals(InvoiceInfos(before), y)
           mn == MonthlyTotals(InvoiceInfos(now), y)
           cb == ClientTotals(InvoiceInfos(before), y)
           cn == ClientTotals(InvoiceInfos(now), y)
       IN /\ \A k \in DOMAIN mb \cup DOMAIN mn :
                Worth(mn, k) = Worth(mb, k)
                   - (IF y = info.date.y /\ k = MonthKey(info) THEN drop ELSE 0)
          /\ \A c \in DOMAIN cb \cup DOMAIN cn :
                Worth(cn, c) = Worth(cb, c)
                   - (IF y = info.date.y /\ c = info.client THEN drop ELSE 0)

\* While a command rewrites its file no other source file changes.
OthersKept ==
    \A p \in Procs :
       pc[p] \in {"st_write", "st_rm_typ", "st_rm_pdf", "st_compile"} =>
          \A f \in (TypFiles \cup {g \in DOMAIN files' : g.ext = "typ"})
                      \ {op[p].old, op[p].new} :
             /\ f \in DOMAIN files /\ f \in DOMAIN files'
             /\ files'[f] = files[f]

\* When the file is selected the tree is the one SourcesBefore gives; when a
\* pay or unpay has ended the combined totals of every month and client are
\* those of that tree, and when a void has ended they are lower by the total
\* extracted from the voided document at its month and client only.
TotalsKept ==
    \A p \in Procs :
       Transition(p) =>
          LET info == InvoiceInfos(SourcesBefore(p))[op[p].old] IN
          /\ pc[p] = "st_write" => SourcesBefore(p) = SourcesNow
          /\ (pc[p] = "idle" /\ op[p].cmd \in {"pay", "unpay"}) =>
                /\ SameButFor(SourcesBefore(p), SourcesNow, info, 0)
                /\ \A y \in Years :
                      DOMAIN MonthlyTotals(InvoiceInfos(SourcesNow), y)
                         = DOMAIN MonthlyTotals(InvoiceInfos(SourcesBefore(p)), y)
          /\ (pc[p] = "idle" /\ op[p].cmd = "void") =>
                /\ info.total = ParseInvoiceTotal(op[p].read).total
                /\ SameButFor(SourcesBefore(p), SourcesNow, info, info.total)

\* C30: pay and unpay leave the combined total (paid + unpaid) of every
\* month and every client of the summary as it was before the command; void
\* lowers the combined total of the invoice's month and of its client by the
\* total extracted from the invoice, and changes no other.
C30_WorthKept == []TotalsKept /\ [][OthersKept]_vars

\* A void of an invoice worth 108.00 has ended after a pay of another one.
C30_Witness ==
    /\ Quiet
    /\ op[1].cmd = "void" /\ Transition(1)
    /\ ParseInvoiceTotal(op[1].read).total = 1080000
    /\ \E f \in TypFiles : EndsWith(f.stem, PAID)
    /\ EndsWith(op[1].new.stem, VOID) /\ Exists(op[1].new)

\* The source files that carry the invoice id of a stem.
SourcesOfId(stem) == {f \in TypFiles : IdOf(f.stem) = IdOf(stem)}

\* The files of the invoice a command works on: its old and its new source
\* file and the binaries next to them.
OwnFiles(p) ==
    {op[p].old, op[p].new, WithExtension(op[p].old, "pdf"), WithExtension(op[p].new, "pdf")}

\* A step taken while a pay, unpay or void rewrites its file leaves every
\* file of every other invoice, source and binary, under its name with its
\* text; the step that selects the file changes no file at all.
OtherDocsKept ==
    \A p \in Procs :
       /\ (pc[p] \in {"st_write", "st_rm_typ", "st_rm_pdf", "st_compile"}
              /\ pc'[p] # pc[p]) =>
             \A f \in (DOMAIN files \cup DOMAIN files') \ OwnFiles(p) :
                /\ f \in DOMAIN files /\ f \in DOMAIN files'
                /\ files'[f] = files[f]
       /\ (pc[p] = "idle" /\ pc'[p] = "st_write") => files' = files

\* When the file is selected it exists with the text read and nothing lies
\* under the new name; when the command has ended the old source file is
\* gone, the new one holds the rewritten text and is the only source file of
\* the invoice id, and the tree holds as many source files as at selection.
LedgerConserved ==
    \A p \in Procs :
       Transition(p) =>
          /\ op[p].new # op[p].old
          /\ pc[p] = "st_write" =>
                /\ Exists(op[p].old) /\ files[op[p].old] = op[p].read
                /\ ~Exists(op[p].new)
                /\ SourcesOfId(op[p].old.stem) = {op[p].old}
          /\ pc[p] = "idle" =>
                /\ ~Exists(op[p].old)
                /\ Exists(op[p].new) /\ files[op[p].new] = op[p].content
                /\ SourcesOfId(op[p].old.stem) = {op[p].new}
                /\ Cardinality(TypFiles) = Cardinality(DOMAIN SourcesBefore(p))
                /\ \A f \in TypFiles \ {op[p].new} : SourcesBefore(p)[f] = files[f]

\* Between commands the tree holds one source file for every invoice that
\* was created, however many were paid, unpaid or voided since.
OnePerInvoice ==
    Quiet => /\ Cardinality(TypFiles) = nNew
             /\ \A f, g \in TypFiles : IdOf(f.stem) = IdOf(g.stem) => f = g

\* C31: a pay, unpay or void that has ended has removed the source file
\* under the old stem and left exactly one source file of the selected
\* invoice id; the names and texts of the files of all other invoices are as
\* they were, and the number of source files is the number of invoices
\* created.
C31_LedgerConserved == [](LedgerConserved /\ OnePerInvoice) /\ [][OtherDocsKept]_vars

\* An unpay has ended in a tree of two invoices: the other one, voided
\* before, lies there with its source and its binary.
C31_Witness ==
    /\ Quiet
    /\ op[1].cmd = "unpay" /\ Transition(1)
    /\ ~Exists(op[1].old) /\ Exists(op[1].new)
    /\ Cardinality(TypFiles) = 2
    /\ \E f \in TypFiles : EndsWith(f.stem, VOID) /\ Exists(WithExtension(f, "pdf"))

====
